---- MODULE Spec2Model ----
(***************************************************************************)
(* Model of alcor's magnitude / cooling-track estimation                   *)
(* (src/alcor/services/simulations/magnitudes.py) and of the grid layout   *)
(* built by src/alcor/services/simulations/da_cooling.py.                  *)
(*                                                                         *)
(* Numbers.  A Python/numpy value is a triple <<kind, n, d>>:              *)
(*   "num"   the rational n/d in lowest terms, d > 0 (floats are modelled  *)
(*           by exact rationals: rounding is not modelled);                *)
(*   "nan"   numpy's NaN (the padding of nan_matrix);                      *)
(*   "inf"   the result of a float division by zero;                       *)
(*   "irr"   a log10 / power of ten whose value is not rational (the       *)
(*           inputs of the model are chosen so that it never arises);      *)
(*   "none"  Python's None (a function that falls off its end);            *)
(*   any other kind is the name of the exception the evaluation raised.    *)
(* Arrays are 0-based in the source and 1-based sequences here; At and At2 *)
(* do the index translation, numpy's negative-index wrap and IndexError.   *)
(***************************************************************************)
EXTENDS Integers, Sequences, FiniteSets, TLC

\* ------------------------------------------------------------------ bounds
\* columns of every grid matrix (rows_count = 650 in initialize_sequences)
Width == 4
\* stars in one batch
MaxStars == 2

\* ------------------------------------------------------------ value algebra
Abs(i) == IF i < 0 THEN -i ELSE i

RECURSIVE Gcd(_, _)
Gcd(a, b) == IF b = 0 THEN a ELSE Gcd(b, a % b)

Num(n, d) ==
    LET g == Gcd(Abs(n), Abs(d))
        s == IF d < 0 THEN -1 ELSE 1
    IN  <<"num", (s * n) \div g, (s * d) \div g>>

Int2V(i) == <<"num", i, 1>>
NaN == <<"nan", 0, 1>>
Inf == <<"inf", 0, 1>>
Irr == <<"irr", 0, 1>>
None == <<"none", 0, 1>>
Raise(e) == <<e, 0, 1>>

Errors == {"TypeError", "IndexError", "ValueError", "UnboundLocalError",
           "KeyError"}

IsErr(v) == v[1] \in Errors
IsNum(v) == v[1] = "num"
IsNaN(v) == v[1] = "nan"
IsNone(v) == v[1] = "none"

\* the exception or special value a binary float operation yields before any
\* arithmetic is done, or None (here: "go on") when both operands are numbers
Special(a, b) ==
    IF IsErr(a) THEN a
    ELSE IF IsErr(b) THEN b
    ELSE IF IsNone(a) \/ IsNone(b) THEN Raise("TypeError")
    ELSE IF IsNaN(a) \/ IsNaN(b) THEN NaN
    ELSE IF a[1] = "irr" \/ b[1] = "irr" THEN Irr
    ELSE IF a[1] = "inf" \/ b[1] = "inf" THEN Inf
    ELSE None

Add(a, b) ==
    IF Special(a, b) # None THEN Special(a, b)
    ELSE Num(a[2] * b[3] + b[2] * a[3], a[3] * b[3])

Neg(a) ==
    IF IsErr(a) THEN a
    ELSE IF IsNone(a) THEN Raise("TypeError")
    ELSE IF IsNum(a) THEN Num(-a[2], a[3])
    ELSE a

Sub(a, b) ==
    IF Special(a, b) # None THEN Special(a, b)
    ELSE Num(a[2] * b[3] - b[2] * a[3], a[3] * b[3])

Mul(a, b) ==
    IF Special(a, b) # None THEN Special(a, b)
    ELSE Num(a[2] * b[2], a[3] * b[3])

\* numpy float64 division: x / 0 is inf (nan for 0 / 0), with a warning only
Div(a, b) ==
    IF Special(a, b) # None THEN Special(a, b)
    ELSE IF b[2] = 0 THEN (IF a[2] = 0 THEN NaN ELSE Inf)
    ELSE Num(a[2] * b[3], a[3] * b[2])

\* comparisons of floats: every comparison with NaN is false
Lt(a, b) == IsNum(a) /\ IsNum(b) /\ a[2] * b[3] < b[2] * a[3]
Le(a, b) == IsNum(a) /\ IsNum(b) /\ a[2] * b[3] <= b[2] * a[3]
Gt(a, b) == Lt(b, a)
Ge(a, b) == Le(b, a)

\* max(0, x) of Python: x if x > 0 else 0 (so max(0, nan) is 0)
Max0(a) ==
    IF IsErr(a) THEN a
    ELSE IF IsNone(a) THEN Raise("TypeError")
    ELSE IF Gt(a, Int2V(0)) \/ a[1] \in {"inf", "irr"} THEN a
    ELSE Int2V(0)

\* largest power of ten the exact logarithm is tabulated for
MaxExp == 8

RECURSIVE Pow10Int(_)
Pow10Int(k) == IF k = 0 THEN 1 ELSE 10 * Pow10Int(k - 1)

\* 10. ** x
Pow10(x) ==
    IF IsErr(x) THEN x
    ELSE IF IsNone(x) THEN Raise("TypeError")
    ELSE IF ~IsNum(x) THEN x
    ELSE IF x[3] # 1 \/ Abs(x[2]) > MaxExp THEN Irr
    ELSE IF x[2] >= 0 THEN Num(Pow10Int(x[2]), 1)
    ELSE Num(1, Pow10Int(-x[2]))

\* math.log10(x): ValueError for x <= 0, exact on the powers of ten
Log10(x) ==
    IF IsErr(x) THEN x
    ELSE IF IsNone(x) THEN Raise("TypeError")
    ELSE IF ~IsNum(x) THEN x
    ELSE IF x[2] <= 0 THEN Raise("ValueError")
    ELSE IF \E k \in 0..MaxExp : x = Num(Pow10Int(k), 1)
         THEN Int2V(CHOOSE k \in 0..MaxExp : x = Num(Pow10Int(k), 1))
    ELSE IF \E k \in 1..MaxExp : x = Num(1, Pow10Int(k))
         THEN Int2V(-(CHOOSE k \in 1..MaxExp : x = Num(1, Pow10Int(k))))
    ELSE Irr

\* ------------------------------------------------------------------ arrays
\* a[i] of a 1-D numpy array of Python length Len(a)
At(a, i) ==
    IF i >= 0 /\ i < Len(a) THEN a[i + 1]
    ELSE IF i < 0 /\ -i <= Len(a) THEN a[Len(a) + i + 1]
    ELSE Raise("IndexError")

\* a[m, r] of a 2-D numpy array
At2(a, m, r) ==
    IF ~((m >= 0 /\ m < Len(a)) \/ (m < 0 /\ -m <= Len(a)))
    THEN Raise("IndexError")
    ELSE LET row == IF m >= 0 THEN a[m + 1] ELSE a[Len(a) + m + 1]
         IN  At(row, r)

\* numpy.ndarray.size is an int attribute: the call `a.size()` raises
\* TypeError ('int' object is not callable)
size(a) == Raise("TypeError")

\* ---------------------------------------------------- 1-D grid estimator
\* The first exception among the values of consecutive statements.
FirstErr(vs) ==
    IF \E i \in 1..Len(vs) : IsErr(vs[i])
    THEN vs[CHOOSE i \in 1..Len(vs) :
                /\ IsErr(vs[i])
                /\ \A j \in 1..(i - 1) : ~IsErr(vs[j])]
    ELSE None

\* e when the statements before raised e, else the value r
OrElse(e, r) == IF e # None THEN e ELSE r

\* s * u + b with b = x_hi - s * u_hi: the line of slope s through
\* (u_hi, x_hi), evaluated at u
line_at(s, x_hi, u_hi, u) == Add(Mul(s, u), Sub(x_hi, Mul(s, u_hi)))

\* the sample of row min_row_index taken as the extrapolated value
sample_of_row(star, cooling_time, pre_wd_lifetime, interest_sequence, mass_index, min_row_index, by_logarithm, one_model) ==
    At2(interest_sequence, mass_index, min_row_index)

\* An IndexError of any sample read here is also that of cooling_time[...,
\* min_row_index + 1], the first value the source reads, so the exception of
\* the leftmost operand is the exception the source raises.
get_extrapolated_xm(star, cooling_time, pre_wd_lifetime, interest_sequence, mass_index, min_row_index, by_logarithm, one_model) ==
    LET ct_hi == At2(cooling_time, mass_index, min_row_index + 1)
        ct_lo == At2(cooling_time, mass_index, min_row_index)
        x_hi == At2(interest_sequence, mass_index, min_row_index + 1)
        x_lo == At2(interest_sequence, mass_index, min_row_index)
        pre == At(pre_wd_lifetime, mass_index)
    IN  IF one_model
        THEN line_at(Div(Sub(x_hi, x_lo), Sub(ct_hi, ct_lo)), x_hi, ct_hi,
                     star.cooling_time)
        ELSE IF by_logarithm
        THEN Pow10(line_at(Div(Log10(Div(x_hi, x_lo)),
                               Log10(Div(Add(ct_hi, pre), Add(ct_lo, pre)))),
                           Log10(x_hi), Log10(Add(ct_hi, pre)),
                           Log10(Add(star.cooling_time, pre))))
        ELSE line_at(Div(Sub(x_hi, x_lo),
                         Log10(Div(Add(ct_hi, pre), Add(ct_lo, pre)))),
                     x_hi, Log10(Add(ct_hi, pre)),
                     Log10(Add(star.cooling_time, pre)))

\* rows of track mass_index that bracket the star's cooling time, in the
\* range(rows_count - 1) of the search loops
BracketRows(star, cooling_time, mass_index, rows_count) ==
    {i \in 0..(rows_count - 2) :
        /\ Le(At2(cooling_time, mass_index, i), star.cooling_time)
        /\ Le(star.cooling_time, At2(cooling_time, mass_index, i + 1))}

MinOf(S) == CHOOSE i \in S : \A j \in S : i <= j
MaxOf(S) == CHOOSE i \in S : \A j \in S : i >= j

\* min_row_index get_xm passes to get_extrapolated_xm: below the first
\* sample (line 432) and beyond the last one (line 445)
xm_row_below == 0
xm_row_beyond(rows_count) == rows_count - 1

\* lines 452-458: x1 + deltf * (x2 - x1) on rows row_index, row_index + 1
interpolated_xm(star, cooling_time, interest_sequence, mass_index, row_index) ==
    LET y1 == At2(cooling_time, mass_index, row_index)
        y2 == At2(cooling_time, mass_index, row_index + 1)
        x1 == At2(interest_sequence, mass_index, row_index)
        x2 == At2(interest_sequence, mass_index, row_index + 1)
    IN  Add(x1, Mul(Div(Sub(star.cooling_time, y1), Sub(y2, y1)),
                    Sub(x2, x1)))

get_xm(star, cooling_time, pre_wd_lifetime, interest_sequence, rows_counts, mass_index, by_logarithm, one_model) ==
    LET first == At2(cooling_time, mass_index, 0)
        rows_count == rows_counts[mass_index + 1]
        last == At2(cooling_time, mass_index, rows_count)
        rows == BracketRows(star, cooling_time, mass_index, rows_count)
    IN  IF IsErr(first) THEN first
        ELSE IF Lt(star.cooling_time, first)
        THEN get_extrapolated_xm(star, cooling_time, pre_wd_lifetime,
                                 interest_sequence, mass_index, xm_row_below,
                                 by_logarithm, one_model)
        ELSE IF IsErr(last) THEN last
        ELSE IF Gt(star.cooling_time, last)
        THEN get_extrapolated_xm(star, cooling_time, pre_wd_lifetime,
                                 interest_sequence, mass_index,
                                 xm_row_beyond(rows_count), by_logarithm,
                                 one_model)
        ELSE IF rows = {} THEN None
        ELSE interpolated_xm(star, cooling_time, interest_sequence,
                             mass_index, MinOf(rows))

\* ----------------------------------------------- mass-interpolated estimator
\* lines 304-306 of extrapolate_by_mass
mass_line(min_mass, xm1, max_mass, xm2, star_mass) ==
    LET s == Div(Sub(xm2, xm1), Sub(max_mass, min_mass))
        t == Sub(xm2, Mul(s, max_mass))
    IN  OrElse(FirstErr(<<min_mass, xm1, max_mass, xm2>>),
               Add(Mul(s, star_mass), t))

extrapolate_by_mass(star, min_mass_index, mass, cooling_time, pre_wd_lifetime, interest_sequence, rows_counts, by_logarithm, one_model) ==
    mass_line(At(mass, min_mass_index),
              get_xm(star, cooling_time, pre_wd_lifetime, interest_sequence,
                     rows_counts, min_mass_index, by_logarithm, one_model),
              At(mass, min_mass_index + 1),
              get_xm(star, cooling_time, pre_wd_lifetime, interest_sequence,
                     rows_counts, min_mass_index + 1, by_logarithm,
                     one_model),
              star.mass)

Unbound == Raise("UnboundLocalError")

\* What one of the two symmetric blocks of interpolate_by_mass leaves behind:
\* the case flag and the locals it assigned (x, y: the first sample or the
\* extrapolated value; x_next, y_next: the second sample).  A local the
\* branch taken does not assign is Unbound; err is the exception raised.
NoCase == [case |-> Unbound, x |-> Unbound, x_next |-> Unbound,
           y |-> Unbound, y_next |-> Unbound, err |-> None]

extrapolated_case(x) ==
    IF IsErr(x) THEN [NoCase EXCEPT !.err = x]
    ELSE [NoCase EXCEPT !.case = Int2V(1), !.x = x]

interpolated_case(cooling_time, interest_sequence, mass_index, row_index) ==
    [case |-> Int2V(0),
     x |-> At2(interest_sequence, mass_index, row_index),
     x_next |-> At2(interest_sequence, mass_index, row_index + 1),
     y |-> At2(cooling_time, mass_index, row_index),
     y_next |-> At2(cooling_time, mass_index, row_index + 1),
     err |-> None]

\* min_row_index interpolate_by_mass passes to get_extrapolated_xm: below
\* the first sample (lines 330, 366) and at or beyond the last one (lines
\* 344, 380)
case_row_below == 1
case_row_beyond(rows_count) == rows_count

\* lines 323-357 (lower track) and 359-393 (upper track).  The search loop
\* has no break: the last bracketing row wins.
track_case(star, cooling_time, pre_wd_lifetime, interest_sequence, rows_counts, mass_index, by_logarithm, one_model) ==
    LET first == At2(cooling_time, mass_index, 0)
        rows_count == rows_counts[mass_index + 1]
        last == At2(cooling_time, mass_index, rows_count)
        rows == BracketRows(star, cooling_time, mass_index, rows_count)
    IN  IF IsErr(first) THEN [NoCase EXCEPT !.err = first]
        ELSE IF Lt(star.cooling_time, first)
        THEN extrapolated_case(
                 get_extrapolated_xm(star, cooling_time, pre_wd_lifetime,
                     interest_sequence, mass_index, case_row_below,
                     by_logarithm, one_model))
        ELSE IF IsErr(last) THEN [NoCase EXCEPT !.err = last]
        ELSE IF Ge(star.cooling_time, last)
        THEN extrapolated_case(
                 get_extrapolated_xm(star, cooling_time, pre_wd_lifetime,
                     interest_sequence, mass_index,
                     case_row_beyond(rows_count), by_logarithm, one_model))
        ELSE IF rows = {} THEN NoCase
        ELSE interpolated_case(cooling_time, interest_sequence, mass_index,
                               MaxOf(rows))

\* ------------------------------------------------------- row indices read
\* rows of track mass_index the search loop reads up to and including row
\* last: row i, and row i + 1 when the left comparison of the chained
\* `a <= t <= b` is true
loop_rows_read(star, cooling_time, mass_index, last) ==
    (0..last) \cup {i + 1 : i \in {j \in 0..last : Le(At2(cooling_time, mass_index, j), star.cooling_time)}}

\* rows get_extrapolated_xm reads (lines 469-497)
extrapolation_rows_read(min_row_index) == {min_row_index, min_row_index + 1}

\* rows of track mass_index read by get_xm (lines 425-458): row 0 and row
\* rows_count in the two comparisons, the rows of the extrapolation, the
\* rows of the loop up to its return
xm_rows_read(star, cooling_time, rows_counts, mass_index) ==
    LET first == At2(cooling_time, mass_index, 0)
        rows_count == rows_counts[mass_index + 1]
        last == At2(cooling_time, mass_index, rows_count)
        rows == BracketRows(star, cooling_time, mass_index, rows_count)
    IN  IF IsErr(first) THEN {0}
        ELSE IF Lt(star.cooling_time, first)
        THEN {0} \cup extrapolation_rows_read(xm_row_below)
        ELSE IF IsErr(last) THEN {0, rows_count}
        ELSE IF Gt(star.cooling_time, last)
        THEN {0, rows_count}
             \cup extrapolation_rows_read(xm_row_beyond(rows_count))
        ELSE {0, rows_count}
             \cup loop_rows_read(star, cooling_time, mass_index,
                                 IF rows = {} THEN rows_count - 2
                                 ELSE MinOf(rows))

\* rows of track mass_index read by a block of interpolate_by_mass (lines
\* 323-357, 359-393): the loop has no break and runs over every row
case_rows_read(star, cooling_time, rows_counts, mass_index) ==
    LET first == At2(cooling_time, mass_index, 0)
        rows_count == rows_counts[mass_index + 1]
        last == At2(cooling_time, mass_index, rows_count)
    IN  IF IsErr(first) THEN {0}
        ELSE IF Lt(star.cooling_time, first)
        THEN {0} \cup extrapolation_rows_read(case_row_below)
        ELSE IF IsErr(last) THEN {0, rows_count}
        ELSE IF Ge(star.cooling_time, last)
        THEN {0, rows_count}
             \cup extrapolation_rows_read(case_row_beyond(rows_count))
        ELSE {0, rows_count}
             \cup loop_rows_read(star, cooling_time, mass_index,
                                 rows_count - 2)

\* ------------------------------------------------------------ the decision
\* what get_xm does with track mass_index (lines 425-458): it extrapolates
\* (lines 425, 438), interpolates in the loop, falls off its end ("none")
\* or raises on a comparison
xm_branch(star, cooling_time, rows_counts, mass_index) ==
    LET first == At2(cooling_time, mass_index, 0)
        rows_count == rows_counts[mass_index + 1]
        last == At2(cooling_time, mass_index, rows_count)
        rows == BracketRows(star, cooling_time, mass_index, rows_count)
    IN  IF IsErr(first) THEN "raised"
        ELSE IF Lt(star.cooling_time, first) THEN "extrapolated"
        ELSE IF IsErr(last) THEN "raised"
        ELSE IF Gt(star.cooling_time, last) THEN "extrapolated"
        ELSE IF rows = {} THEN "none"
        ELSE "interpolated"

\* what a block of interpolate_by_mass does with track mass_index (lines
\* 323-357, 359-393): case 1 (lines 323, 335), case 0 in the loop, no case
\* assigned ("none"), or a comparison that raises
case_branch(star, cooling_time, rows_counts, mass_index) ==
    LET first == At2(cooling_time, mass_index, 0)
        rows_count == rows_counts[mass_index + 1]
        last == At2(cooling_time, mass_index, rows_count)
        rows == BracketRows(star, cooling_time, mass_index, rows_count)
    IN  IF IsErr(first) THEN "raised"
        ELSE IF Lt(star.cooling_time, first) THEN "extrapolated"
        ELSE IF IsErr(last) THEN "raised"
        ELSE IF Ge(star.cooling_time, last) THEN "extrapolated"
        ELSE IF rows = {} THEN "none"
        ELSE "interpolated"

\* lines 395-414: the four case combinations (lo: x1, x2, y1, y2 and case_1;
\* hi: x3, x4, y3, y4 and case_2)
blend_of_first_samples(lo, hi, min_mass, max_mass, star) ==
    OrElse(FirstErr(<<lo.err, hi.err, min_mass, max_mass, lo.case, hi.case>>),
           Add(lo.x, Mul(Sub(hi.x, lo.x),
                         Div(Sub(star.mass, min_mass),
                             Sub(max_mass, min_mass)))))

\* the estimate of the upper track alone
upper_track_estimate(lo, hi, min_mass, max_mass, star) ==
    OrElse(FirstErr(<<lo.err, hi.err, min_mass, max_mass, lo.case, hi.case>>),
           IF hi.case = Int2V(0)
           THEN Add(hi.x, Div(Mul(Sub(hi.x_next, hi.x),
                                  Sub(star.cooling_time, hi.y)),
                              Sub(hi.y_next, hi.y)))
           ELSE hi.x)

blend_cases(lo, hi, min_mass, max_mass, star) ==
    LET den == Div(Sub(star.mass, min_mass), Sub(max_mass, min_mass))
        t == star.cooling_time
        ym1 == Add(lo.y, Mul(Sub(hi.y, lo.y), den))
        ym2 == Add(lo.y_next, Mul(Sub(hi.y_next, lo.y_next), den))
        xm1 == Add(lo.x, Mul(Sub(hi.x, lo.x), den))
        xm2 == Add(lo.x_next, Mul(Sub(hi.x_next, lo.x_next), den))
        lo_xm == Add(lo.x, Div(Mul(Sub(lo.x_next, lo.x), Sub(t, lo.y)),
                               Sub(lo.y_next, lo.y)))
        hi_xm == Add(hi.x, Div(Mul(Sub(hi.x_next, hi.x), Sub(t, hi.y)),
                               Sub(hi.y_next, hi.y)))
    IN  OrElse(FirstErr(<<lo.err, hi.err, min_mass, max_mass, lo.case,
                          hi.case>>),
               IF lo.case = Int2V(0) /\ hi.case = Int2V(0)
               THEN Add(xm1, Mul(Div(Sub(t, ym1), Sub(ym2, ym1)),
                                 Sub(xm2, xm1)))
               ELSE IF lo.case = Int2V(0) /\ hi.case = Int2V(1)
               THEN Add(lo_xm, Mul(Sub(hi.x, lo_xm), den))
               ELSE IF lo.case = Int2V(1) /\ hi.case = Int2V(0)
               THEN Add(lo.x, Mul(Sub(hi_xm, lo.x), den))
               ELSE Add(lo.x, Mul(Sub(hi.x, lo.x), den)))

\* lines 323-414 of interpolate_by_mass, for the bracket the loop of lines
\* 317-321 found
blend_by_mass(star, min_mass_index, max_mass_index, mass, cooling_time, pre_wd_lifetime, interest_sequence, rows_counts, by_logarithm, one_model) ==
    blend_cases(track_case(star, cooling_time, pre_wd_lifetime,
                           interest_sequence, rows_counts, min_mass_index,
                           by_logarithm, one_model),
                track_case(star, cooling_time, pre_wd_lifetime,
                           interest_sequence, rows_counts, max_mass_index,
                           by_logarithm, one_model),
                At(mass, min_mass_index), At(mass, max_mass_index), star)

\* mass tracks k of range(count - 1) with mass[k] <= star mass < mass[k + 1]
MassBrackets(star, mass, count) ==
    {k \in 0..(count - 2) :
        /\ Le(At(mass, k), star.mass)
        /\ Lt(star.mass, At(mass, k + 1))}

interpolate_by_mass(star, mass, cooling_time, pre_wd_lifetime, interest_sequence, rows_counts, by_logarithm, one_model) ==
    IF IsErr(size(mass)) THEN size(mass)
    ELSE IF MassBrackets(star, mass, size(mass)[2]) = {} THEN Unbound
    ELSE blend_by_mass(star, MinOf(MassBrackets(star, mass, size(mass)[2])),
                       MinOf(MassBrackets(star, mass, size(mass)[2])) + 1,
                       mass, cooling_time, pre_wd_lifetime, interest_sequence,
                       rows_counts, by_logarithm, one_model)

\* the second track taken as the lower one of the bracket
second_track_index(star, grid_masses) == Int2V(1)

\* the min_mass_index interpolate passes to extrapolate_by_mass, None when it
\* calls interpolate_by_mass instead
interpolate_min_mass_index(star, grid_masses) ==
    IF Lt(star.mass, At(grid_masses, 0)) THEN Int2V(0)
    ELSE IF Ge(star.mass, At(grid_masses, -1))
    THEN Sub(size(grid_masses), Int2V(1))
    ELSE None

\* lines 257-272, with min_mass_index the value of interpolate_min_mass_index
interpolate_with(min_mass_index, star, cooling_or_color_sequence, interest_sequence, by_logarithm, one_model) ==
    IF IsErr(min_mass_index) THEN min_mass_index
    ELSE IF min_mass_index # None
    THEN extrapolate_by_mass(star, min_mass_index[2],
             cooling_or_color_sequence.mass,
             cooling_or_color_sequence.cooling_time,
             cooling_or_color_sequence.pre_wd_lifetime,
             cooling_or_color_sequence[interest_sequence],
             cooling_or_color_sequence.rows_counts,
             by_logarithm, one_model)
    ELSE interpolate_by_mass(star, cooling_or_color_sequence.mass,
             cooling_or_color_sequence.cooling_time,
             cooling_or_color_sequence.pre_wd_lifetime,
             cooling_or_color_sequence[interest_sequence],
             cooling_or_color_sequence.rows_counts,
             by_logarithm, one_model)

interpolate(star, cooling_or_color_sequence, interest_sequence, by_logarithm, one_model) ==
    interpolate_with(
        interpolate_min_mass_index(star, cooling_or_color_sequence.mass),
        star, cooling_or_color_sequence, interest_sequence, by_logarithm,
        one_model)

\* ------------------------------------------------------ colour-table lookup
\* linear_estimation(x=(xa, xb), y=(ya, yb))(t): scipy's
\* InterpolatedUnivariateSpline of degree 1 through two points.  Its
\* constructor raises ValueError unless x is strictly increasing (a NaN in x
\* fails that test as well); the spline extrapolates outside [xa, xb].
linear_estimation(xa, xb, ya, yb, t) ==
    OrElse(FirstErr(<<xa, xb, ya, yb>>),
           IF ~Lt(xa, xb) THEN Raise("ValueError")
           ELSE Add(ya, Mul(Sub(yb, ya), Div(Sub(t, xa), Sub(xb, xa)))))

\* the per-track splines c_1, c_2 shared by get_interpolated_magnitude
\* (lines 676-688) and get_abs_magnitude (lines 705-717)
track_magnitude(star_luminosity, table_luminosity, table_magnitude, track_index, row_index) ==
    linear_estimation(At2(table_luminosity, track_index, row_index),
                      At2(table_luminosity, track_index, row_index + 1),
                      At2(table_magnitude, track_index, row_index),
                      At2(table_magnitude, track_index, row_index + 1),
                      star_luminosity)

\* magnitude_spline(star_mass) of lines 690-692 and 719-722
magnitude_spline(mass_1, mass_2, c_1, c_2, star_mass) ==
    OrElse(FirstErr(<<c_1, c_2>>),
           linear_estimation(mass_1, mass_2, c_1, c_2, star_mass))

get_interpolated_magnitude(star_mass, star_luminosity, table_luminosity, table_magnitude, table_mass, row_index_1, row_index_2, mass_index) ==
    magnitude_spline(At(table_mass, 0), At(table_mass, 1),
        track_magnitude(star_luminosity, table_luminosity, table_magnitude,
                        mass_index, row_index_1),
        track_magnitude(star_luminosity, table_luminosity, table_magnitude,
                        mass_index + 1, row_index_2),
        star_mass)

get_abs_magnitude(star_mass, star_luminosity, table_magnitude, table_luminosity, table_mass, row_index_1, row_index_2, mass_index) ==
    Max0(magnitude_spline(At(table_mass, mass_index),
             At(table_mass, mass_index + 1),
             track_magnitude(star_luminosity, table_luminosity,
                             table_magnitude, mass_index, row_index_1),
             track_magnitude(star_luminosity, table_luminosity,
                             table_magnitude, mass_index + 1, row_index_2),
             star_mass))

Bands == <<"u_ubvri_absolute", "b_ubvri_absolute", "v_ubvri_absolute",
           "r_ubvri_absolute", "i_ubvri_absolute">>

\* A call that returns several values: kind "tuple" with the values in vals,
\* kind "none" when the function fell off its end, kind "raise" with the
\* exception in err.
Raised(e) == [kind |-> "raise", err |-> e, vals |-> <<>>]
NoneResult == [kind |-> "none", err |-> None, vals |-> <<>>]
Tuple(vals) ==
    IF FirstErr(vals) # None THEN Raised(FirstErr(vals))
    ELSE [kind |-> "tuple", err |-> None, vals |-> vals]
\* the tuple vals unless the statements before raised e
OrElse2(e, vals) == IF e # None THEN Raised(e) ELSE Tuple(vals)

get_extrapolated_magnitudes_by_luminosity(star_mass, luminosity, color_table, row_index_1, row_index_2, mass_index) ==
    Tuple([b \in 1..5 |->
             get_abs_magnitude(star_mass, luminosity, color_table[Bands[b]],
                               color_table.luminosity, color_table.mass,
                               row_index_1, row_index_2, mass_index)])

\* rows of a colour-table track that bracket the luminosity (descending
\* order: luminosity[row + 1] <= L <= luminosity[row])
LuminosityRows(color_table, track_index, rows_count, luminosity) ==
    {i \in 0..(rows_count - 2) :
        /\ Le(At2(color_table.luminosity, track_index, i + 1), luminosity)
        /\ Le(luminosity, At2(color_table.luminosity, track_index, i))}

get_interpolated_magnitudes_by_luminosity(star_mass, rows_count_1, rows_count_2, color_table, luminosity, mass_index) ==
    LET rows_1 == LuminosityRows(color_table, mass_index, rows_count_1,
                                 luminosity)
        rows_2 == LuminosityRows(color_table, mass_index + 1, rows_count_2,
                                 luminosity)
    IN  IF rows_1 = {} \/ rows_2 = {} THEN NoneResult
        ELSE Tuple([b \in 1..5 |->
                 get_interpolated_magnitude(star_mass, luminosity,
                     color_table.luminosity, color_table[Bands[b]],
                     color_table.mass, MinOf(rows_1), MinOf(rows_2),
                     mass_index)])

\* which of the three returns of get_magnitudes is taken: "bright" (line
\* 536), "faint" (line 547), "inside" (line 555), or the exception of a
\* sample read by the tests of lines 534-546
magnitudes_branch(luminosity, lum, rows_count_1, rows_count_2, min_mass_index) ==
    LET first_1 == At2(lum, min_mass_index, 0)
        first_2 == At2(lum, min_mass_index + 1, 0)
        last_1 == At2(lum, min_mass_index, rows_count_1)
        last_2 == At2(lum, min_mass_index + 1, rows_count_2)
    IN  IF IsErr(first_1) THEN first_1
        ELSE IF Gt(luminosity, first_1) THEN "bright"
        ELSE IF IsErr(first_2) THEN first_2
        ELSE IF Gt(luminosity, first_2) THEN "bright"
        ELSE IF IsErr(last_1) THEN last_1
        ELSE IF Lt(luminosity, last_1) THEN "faint"
        ELSE IF IsErr(last_2) THEN last_2
        ELSE IF Lt(luminosity, last_2) THEN "faint"
        ELSE "inside"

get_magnitudes(star, luminosity, color_table, rows_count_1, rows_count_2, min_mass_index) ==
    LET branch == magnitudes_branch(luminosity, color_table.luminosity,
                                    rows_count_1, rows_count_2,
                                    min_mass_index)
    IN  IF branch = "bright" \/ branch = "faint"
        THEN get_extrapolated_magnitudes_by_luminosity(star.mass, luminosity,
                 color_table,
                 IF branch = "bright" THEN 0 ELSE rows_count_1,
                 IF branch = "bright" THEN 0 ELSE rows_count_2,
                 min_mass_index)
        ELSE IF branch = "inside"
        THEN get_interpolated_magnitudes_by_luminosity(star.mass,
                 rows_count_1, rows_count_2, color_table, luminosity,
                 min_mass_index)
        ELSE Raised(branch)

\* the min_mass_index interpolate_magnitudes passes to get_magnitudes
magnitudes_min_mass_index(star, color_table) ==
    IF Le(star.mass, At(color_table.mass, 0)) THEN Int2V(0)
    ELSE IF Gt(star.mass, At(color_table.mass, -1))
    THEN Sub(size(color_table.mass), Int2V(1))
    ELSE IF IsErr(size(color_table.mass)) THEN size(color_table.mass)
    ELSE LET found == {k \in 0..(size(color_table.mass)[2] - 2) :
                        /\ Lt(At(color_table.mass, k), star.mass)
                        /\ Le(star.mass, At(color_table.mass, k + 1))}
         IN  IF found = {} THEN Unbound ELSE Int2V(MinOf(found))

\* lines 520-525, with min_mass_index the value of magnitudes_min_mass_index;
\* rows_count_1 and rows_count_2 are those of tracks min_mass_index and
\* min_mass_index + 1 in the two branches that get past size()
magnitudes_with(min_mass_index, star, color_table, luminosity) ==
    IF IsErr(min_mass_index) THEN Raised(min_mass_index)
    ELSE get_magnitudes(star, luminosity, color_table,
                        color_table.rows_counts[min_mass_index[2] + 1],
                        color_table.rows_counts[min_mass_index[2] + 2],
                        min_mass_index[2])

interpolate_magnitudes(star, color_table, luminosity) ==
    magnitudes_with(magnitudes_min_mass_index(star, color_table), star,
                    color_table, luminosity)

\* ------------------------------------------- metallicity-interpolated estimator
\* interpolate(star, cooling_sequences[key], ...) of lines 215-234
sequence_estimate(star, cooling_sequences, key, interest, by_logarithm) ==
    IF key \in DOMAIN cooling_sequences
    THEN interpolate(star, cooling_sequences[key], interest, by_logarithm,
                     FALSE)
    ELSE Raise("KeyError")

\* lines 236-237, after the four calls in the order of lines 215-234
limits_tuple(min_luminosity, min_effective_temperature, max_luminosity, max_effective_temperature) ==
    OrElse2(FirstErr(<<min_luminosity, min_effective_temperature,
                       max_luminosity, max_effective_temperature>>),
            <<min_luminosity, max_luminosity, min_effective_temperature,
              max_effective_temperature>>)

get_luminosity_effective_temperature_limits(star, cooling_sequences, min_metallicity_by_thousand, max_metallicity_by_thousand) ==
    limits_tuple(
        sequence_estimate(star, cooling_sequences,
            min_metallicity_by_thousand, "luminosity", FALSE),
        sequence_estimate(star, cooling_sequences,
            min_metallicity_by_thousand, "effective_temperature", TRUE),
        sequence_estimate(star, cooling_sequences,
            max_metallicity_by_thousand, "luminosity", FALSE),
        sequence_estimate(star, cooling_sequences,
            max_metallicity_by_thousand, "effective_temperature", TRUE))

\* the integer part of a tenth of x
tenth_of(x) == x[2] \div (10 * x[3])

\* int(x) of a non-negative float
IntOf(x) == x[2] \div x[3]

\* index (1-based) of the metallicity bracket the loop of lines 165-180
\* stops at, 0 when no bracket holds the star
metallicity_index(star, metallicities) ==
    LET found == {i \in 1..(Len(metallicities) - 1) :
                    /\ Le(metallicities[i], star.metallicity)
                    /\ Lt(star.metallicity, metallicities[i + 1])}
    IN  IF found = {} THEN 0 ELSE MinOf(found)

\* the estimate of the upper grid taken whatever the metallicity
estimate_of_max(lo, hi, metallicity, min_metallicity, max_metallicity) == hi

\* lines 183-191: min + (max - min) * (Z - Zmin) / (Zmax - Zmin)
metallicity_blend(lo, hi, metallicity, min_metallicity, max_metallicity) ==
    Add(lo, Div(Mul(Sub(hi, lo), Sub(metallicity, min_metallicity)),
                Sub(max_metallicity, min_metallicity)))

blend_limits(limits, star, min_metallicity, max_metallicity) ==
    IF limits.kind = "raise" THEN limits
    ELSE Tuple(<<metallicity_blend(limits.vals[1], limits.vals[2],
                     star.metallicity, min_metallicity, max_metallicity),
                 metallicity_blend(limits.vals[3], limits.vals[4],
                     star.metallicity, min_metallicity, max_metallicity)>>)

\* the luminosity and effective temperature of lines 165-191; without a
\* bracket line 183 reads the unassigned min_luminosity
blend_by_metallicity(star, cooling_sequences, metallicities) ==
    LET i == metallicity_index(star, metallicities)
    IN  IF i = 0 THEN Raised(Unbound)
        ELSE blend_limits(
                 get_luminosity_effective_temperature_limits(star,
                     cooling_sequences,
                     IntOf(Mul(metallicities[i], Int2V(1000))),
                     IntOf(Mul(metallicities[i + 1], Int2V(1000)))),
                 star, metallicities[i], metallicities[i + 1])

\* lines 193-207: the 7-tuple; unpacking the None of
\* get_interpolated_magnitudes_by_luminosity raises TypeError
with_magnitudes(lt, mags) ==
    IF mags.kind = "raise" THEN mags
    ELSE IF mags.kind = "none" THEN Raised(Raise("TypeError"))
    ELSE Tuple(lt.vals \o mags.vals)

\* lines 193-199, with lt the luminosity and temperature of lines 183-191
lookup_magnitudes(lt, star, color_table) ==
    IF lt.kind = "raise" THEN lt
    ELSE with_magnitudes(lt,
             interpolate_magnitudes(star, color_table, lt.vals[1]))

da_db_interpolation(star, cooling_sequences, color_table, metallicities) ==
    lookup_magnitudes(
        blend_by_metallicity(star, cooling_sequences, metallicities),
        star, color_table)

\* -------------------------------------------------------- oxygen-neon model
\* line 106: star['cooling_time'] = log10(star['cooling_time']) + 9.
one_cooling_time(star) == Add(Log10(star.cooling_time), Int2V(9))

\* the colour indices returned in place of the magnitudes
one_tuple_of_colours(luminosity, v_ubvri_absolute, bv_ubvri, vi_ubvri, vr_ubvri, uv_ubvri, log_effective_temperature) ==
    OrElse2(FirstErr(<<luminosity, v_ubvri_absolute, bv_ubvri, vi_ubvri,
                       vr_ubvri, uv_ubvri, log_effective_temperature>>),
            <<luminosity, Pow10(log_effective_temperature), uv_ubvri,
              bv_ubvri, v_ubvri_absolute, vr_ubvri, vi_ubvri>>)

\* lines 145-158
one_tuple(luminosity, v_ubvri_absolute, bv_ubvri, vi_ubvri, vr_ubvri, uv_ubvri, log_effective_temperature) ==
    OrElse2(FirstErr(<<luminosity, v_ubvri_absolute, bv_ubvri, vi_ubvri,
                       vr_ubvri, uv_ubvri, log_effective_temperature>>),
            <<luminosity,
              Pow10(log_effective_temperature),
              Add(uv_ubvri, v_ubvri_absolute),
              Add(bv_ubvri, v_ubvri_absolute),
              v_ubvri_absolute,
              Sub(v_ubvri_absolute, vr_ubvri),
              Sub(v_ubvri_absolute, vi_ubvri)>>)

\* lines 108-143, with star the Series after line 106
one_estimates(star, color_table) ==
    one_tuple(interpolate(star, color_table, "luminosity", FALSE, TRUE),
              interpolate(star, color_table, "v_ubvri_absolute", FALSE, TRUE),
              interpolate(star, color_table, "bv_ubvri", FALSE, TRUE),
              interpolate(star, color_table, "vi_ubvri", FALSE, TRUE),
              interpolate(star, color_table, "vr_ubvri", FALSE, TRUE),
              interpolate(star, color_table, "uv_ubvri", FALSE, TRUE),
              interpolate(star, color_table, "log_effective_temperature",
                          FALSE, TRUE))

one_interpolation(star, color_table) ==
    IF IsErr(one_cooling_time(star)) THEN Raised(one_cooling_time(star))
    ELSE one_estimates([star EXCEPT !.cooling_time = one_cooling_time(star)],
                       color_table)

\* get_spectral_type, with the value r of np.random.rand()
get_spectral_type(r, db_to_da_fraction) ==
    IF Lt(r, db_to_da_fraction) THEN "DB" ELSE "DA"

\* ------------------------------------------------------------- grid tables
\* The layout metallicities_cooling_sequences / read_files build: every
\* matrix has Width columns, track m holds rows_counts[m] samples and NaN
\* after them.
Pad(samples) == samples \o [i \in 1..(Width - Len(samples)) |-> NaN]

\* 0-based track and row indices of a grid
GridTracks == 0..2
GridRows == 0..(Width - 1)

\* Matrix(rows_counts, f): track m (0-based), row r (0-based) holds f[m, r]
Matrix(rows_counts, f) ==
    [m \in 1..Len(rows_counts) |->
        Pad([r \in 1..rows_counts[m] |-> f[m - 1, r - 1]])]

Hundredths(i) == Num(i, 100)

\* Cooling sequence of one metallicity: three mass tracks whose cooling
\* times are 10, 100, 1000, ... minus the pre-WD lifetime (read_files,
\* fill_type 2), luminosity rising and temperature falling with age.
CoolingSequence(rows_counts, pre, shift) ==
    [mass |-> <<Hundredths(52), Hundredths(60), Hundredths(70)>>,
     pre_wd_lifetime |-> <<Int2V(pre), Int2V(pre), Int2V(pre)>>,
     rows_counts |-> rows_counts,
     cooling_time |->
        Matrix(rows_counts, [m \in GridTracks, r \in GridRows |-> Int2V(Pow10Int(r + 1) - pre)]),
     luminosity |->
        Matrix(rows_counts, [m \in GridTracks, r \in GridRows |-> Int2V(shift + m + 2 * r)]),
     effective_temperature |->
        Matrix(rows_counts, [m \in GridTracks, r \in GridRows |-> Int2V(Pow10Int(5 - r + m))])]

\* rows_counts of the cooling sequences: every track padded, or the first
\* track filling its Width columns (read_files stops at max_rows)
PaddedCounts == <<Width - 1, Width - 1, Width - 2>>
FullCounts == <<Width, Width - 1, Width - 1>>

\* A cooling sequence whose tracks are sampled at different cooling times, as
\* the track files of different masses are: the middle track has the times
\* 1, 100, 10000, ... and its own luminosities.
SkewedSequence(rows_counts, pre) ==
    [CoolingSequence(rows_counts, pre, 0) EXCEPT
        !.cooling_time =
            Matrix(rows_counts, [m \in GridTracks, r \in GridRows |-> IF m = 1 THEN Int2V(Pow10Int(2 * r) - pre) ELSE Int2V(Pow10Int(r + 1) - pre)]),
        !.luminosity =
            Matrix(rows_counts, [m \in GridTracks, r \in GridRows |-> IF m = 1 THEN Int2V(2 + r) ELSE Int2V(5 * r)])]

da_sequences(rows_counts, pre) ==
    [key \in {1, 10, 30, 60} |-> CoolingSequence(rows_counts, pre, key \div 10)]
db_sequences(rows_counts, pre) ==
    [key \in {1, 10, 60} |-> CoolingSequence(rows_counts, pre, key \div 5)]

\* Colour table of the DA / DB models: luminosity descending along a track
\* (descending = TRUE, the order the bracket search assumes) or ascending;
\* band b of a track is its V magnitude shifted by b - 4, so that faint
\* bands go below zero.
ColorTable(rows_counts, descending, shift) ==
    [mass |-> <<Hundredths(52), Hundredths(60), Hundredths(70)>>,
     rows_counts |-> rows_counts,
     luminosity |->
        Matrix(rows_counts,
               [m \in GridTracks, r \in GridRows |-> IF descending THEN Int2V(6 - 2 * r + m)
                             ELSE Int2V(2 * r + m)])] @@
    [b \in {Bands[i] : i \in 1..5} |->
        Matrix(rows_counts,
               [m \in GridTracks, r \in GridRows |-> Int2V(shift + 2 * r - m
                                   + (CHOOSE i \in 1..5 : Bands[i] = b) - 4)])]

\* Colour table of the single oxygen-neon model: cooling time is
\* log10(years), 8, 9, 10, ...
OneColorTable(rows_counts) ==
    [mass |-> <<Hundredths(116), Hundredths(120), Hundredths(124)>>,
     pre_wd_lifetime |-> <<Int2V(0), Int2V(0), Int2V(0)>>,
     rows_counts |-> rows_counts,
     cooling_time |-> Matrix(rows_counts, [m \in GridTracks, r \in GridRows |-> Int2V(8 + r)]),
     luminosity |-> Matrix(rows_counts, [m \in GridTracks, r \in GridRows |-> Int2V(1 + m + r)]),
     v_ubvri_absolute |-> Matrix(rows_counts, [m \in GridTracks, r \in GridRows |-> Int2V(2 * r + m)]),
     bv_ubvri |-> Matrix(rows_counts, [m \in GridTracks, r \in GridRows |-> Num(r - 1, 2)]),
     vi_ubvri |-> Matrix(rows_counts, [m \in GridTracks, r \in GridRows |-> Int2V(r)]),
     vr_ubvri |-> Matrix(rows_counts, [m \in GridTracks, r \in GridRows |-> Int2V(3 - m)]),
     uv_ubvri |-> Matrix(rows_counts, [m \in GridTracks, r \in GridRows |-> Int2V(m - r)]),
     log_effective_temperature |->
        Matrix(rows_counts, [m \in GridTracks, r \in GridRows |-> Int2V(4)])]

\* the grids one run is given
Tables ==
    {[da_cooling_sequences |-> da_sequences(rc, pre),
      db_cooling_sequences |-> db_sequences(rc, pre),
      da_color_table |-> ColorTable(PaddedCounts, desc, 0),
      db_color_table |-> ColorTable(PaddedCounts, desc, 1),
      one_color_table |-> OneColorTable(rc)] :
        rc \in {PaddedCounts, FullCounts}, pre \in {0, 1},
        desc \in BOOLEAN}

\* -------------------------------------------------------------------- stars
\* defaults of assign_magnitudes (lines 23-24)
max_carbon_oxygen_core_wd_mass == Hundredths(114)
db_to_da_fraction == Num(2, 10)

DA_METALLICITIES == <<Num(1, 1000), Num(1, 100), Num(3, 100), Num(6, 100)>>
DB_METALLICITIES == <<Num(1, 1000), Num(1, 100), Num(6, 100)>>

\* values np.random.rand() may return that the model distinguishes
Draws == {Num(1, 10), Num(2, 10), Num(1, 2)}

\* Candidate stars.  A cooling time that is extrapolated in log10, or
\* transformed by log10 + 9, is a power of ten (less the pre-WD lifetime), so
\* that every logarithm of the model is exact.
StarOf(mass, metallicity, cooling_time) ==
    [mass |-> Hundredths(mass), metallicity |-> Num(metallicity, 1000),
     cooling_time |-> cooling_time]

CarbonOxygenStars(pre) ==
    {StarOf(50, 20, Int2V(55)), StarOf(50, 10, Int2V(10 - pre)),
     StarOf(50, 20, Int2V(1 - pre)), StarOf(50, 60, Int2V(2000)),
     StarOf(60, 50, Int2V(55))}

OxygenNeonStars ==
    {StarOf(114, 20, Num(1, 100)), StarOf(114, 20, Int2V(1)),
     StarOf(120, 20, Num(1, 10))}

\* ------------------------------------------------------------------- state
VARIABLES
    stars,      \* the DataFrame passed in: row label -> input columns
    tables,     \* the five grids passed in
    pc,         \* "split", "carbon_oxygen", "oxygen_neon", "return",
                \* "returned", "raised"
    carbon_oxygen_white_dwarfs,   \* stars[mask]: row label -> columns
    oxygen_neon_white_dwarfs,     \* stars[~mask]
    todo,       \* row labels the running iterrows loop has not yielded yet
    series,     \* row label -> the Series iterrows yielded for it, as the
                \* loop body left it
    draws,      \* row label -> the values np.random.rand() returned for it
    raw,        \* row label -> the luminosity the estimation returned
    result,     \* the value assign_magnitudes returned
    error,      \* the exception that left assign_magnitudes, or None
    est,        \* the last call of the estimator interface (EstSpec)
    files,      \* read_files: the rows of each track file (GridSpec)
    cooling_sequence,   \* read_files: the arrays being filled
    file_path_index,    \* read_files: the file being read
    row_index,  \* read_files: the row the csv reader yields next
    fill_type,  \* read_files: the column layout of the files
    method,     \* filter_stars: the filtration method (FilterSpec)
    stars_copy, \* filter_stars: the frame the cuts are applied to
    stars_count,            \* filter_stars: rows before the running cut
    eliminations_counter,   \* filter_stars: the Counter of eliminations
    filtered    \* filter_stars: the frame it returned

\* the state of read_files
reading == <<files, cooling_sequence, file_path_index, row_index, fill_type>>

\* the state of filter_stars
filtering == <<method, stars_copy, stars_count, eliminations_counter, filtered>>

vars == <<stars, tables, pc, carbon_oxygen_white_dwarfs,
          oxygen_neon_white_dwarfs, todo, series, draws, raw, result, error,
          est, reading,
                   filtering>>

\* the grids are built: read_files is not running
NotReading ==
    /\ files = <<>>
    /\ cooling_sequence = <<>>
    /\ file_path_index = 0
    /\ row_index = 0
    /\ fill_type = 0

\* filter_stars is not running
NotFiltering ==
    /\ method = "none"
    /\ stars_copy = <<>>
    /\ stars_count = 0
    /\ eliminations_counter = <<>>
    /\ filtered = <<>>

InputColumns == {"mass", "metallicity", "cooling_time"}
DerivedColumns == <<"luminosity", "effective_temperature",
                    "u_ubvri_absolute", "b_ubvri_absolute",
                    "v_ubvri_absolute", "r_ubvri_absolute",
                    "i_ubvri_absolute">>

\* a key a Series does not have
Absent == <<"absent", 0, 1>>
NoFrame == <<>>
NoCall == [op |-> "none"]

Labels == DOMAIN stars

\* the Series iterrows yields for a row: the row's columns.  The first
\* assignment of the loop body, star['spectral_type'] = ..., adds a key (or
\* changes the dtype) and so detaches the Series from its frame: no later
\* write reaches the frame.
RowSeries(row) ==
    [c \in InputColumns |-> row[c]] @@
    [c \in {DerivedColumns[i] : i \in 1..7} |-> Absent] @@
    [spectral_type |-> "absent"]

Init ==
    /\ \E t \in Tables :
         /\ tables = t
         /\ \E n \in 1..MaxStars :
              stars \in [1..n ->
                  CarbonOxygenStars(
                      t.da_cooling_sequences[1].pre_wd_lifetime[1][2])
                  \cup OxygenNeonStars]
    /\ pc = "split"
    /\ carbon_oxygen_white_dwarfs = NoFrame
    /\ oxygen_neon_white_dwarfs = NoFrame
    /\ todo = {}
    /\ series = [i \in {} |-> 0]
    /\ draws = [i \in DOMAIN stars |-> <<>>]
    /\ raw = [i \in {} |-> 0]
    /\ result = NoFrame
    /\ error = None
    /\ est = NoCall
    /\ NotReading
    /\ NotFiltering

\* df[mask]: the rows whose label is in keep, copied
Select(df, keep) == [i \in keep |-> df[i]]

\* the mask with the threshold itself counted as carbon-oxygen
mask_with_threshold(df, threshold) ==
    {i \in DOMAIN df : Le(df[i].mass, threshold)}

\* lines 32-33: the labels of the rows with mass < threshold
carbon_oxygen_white_dwarfs_mask(df, threshold) ==
    {i \in DOMAIN df : Lt(df[i].mass, threshold)}

\* lines 32-35
Split ==
    /\ pc = "split"
    /\ LET mask == carbon_oxygen_white_dwarfs_mask(stars,
                       max_carbon_oxygen_core_wd_mass)
       IN  /\ carbon_oxygen_white_dwarfs' = Select(stars, mask)
           /\ oxygen_neon_white_dwarfs' = Select(stars, Labels \ mask)
           /\ todo' = mask
    /\ pc' = "carbon_oxygen"
    /\ UNCHANGED <<stars, tables, series, draws, raw, result, error, est, reading,
                   filtering>>

\* the luminosity stored without the sign change
luminosity_as_returned(luminosity) == luminosity

\* lines 66 and 85: star['luminosity'] = -luminosity
stored_luminosity(luminosity) == Neg(luminosity)

\* the Series after lines 66-72 / 85-91 stored the 7-tuple vals
Assigned(star, vals) ==
    [c \in DOMAIN star |->
        IF c = "luminosity" THEN stored_luminosity(vals[1])
        ELSE IF \E i \in 2..7 : DerivedColumns[i] = c
        THEN vals[CHOOSE i \in 2..7 : DerivedColumns[i] = c]
        ELSE star[c]]

\* the cooling sequences, colour table and metallicities of lines 46-51 and
\* 60-64 for a spectral type
co_cooling_sequences(spectral_type) ==
    IF spectral_type = "DA" THEN tables.da_cooling_sequences
    ELSE tables.db_cooling_sequences
\* the DA colour table for either spectral type
color_table_of_da(spectral_type) == tables.da_color_table

co_color_table(spectral_type) ==
    IF spectral_type = "DA" THEN tables.da_color_table
    ELSE tables.db_color_table
co_metallicities(spectral_type) ==
    IF spectral_type = "DA" THEN DA_METALLICITIES ELSE DB_METALLICITIES

\* grids in which an estimation stored a value
grids_with_stored_value(grids) ==
    [grids EXCEPT !.one_color_table.rows_counts[1] = 0]

\* The grids after the estimation of one star.  The estimators receive the
\* dicts by reference; interpolate, interpolate_magnitudes and what they call
\* only subscript-read them (no subscript assignment, no in-place numpy
\* operation), so the grids are left as they were.
grids_after_estimation(grids) == grids

\* the estimation of one carbon-oxygen star, lines 38-64
co_estimation(star, spectral_type) ==
    da_db_interpolation(star, co_cooling_sequences(spectral_type),
                        co_color_table(spectral_type),
                        co_metallicities(spectral_type))

\* one pass of a loop body over the Series `star` of row i: it received
\* spectral type st and the estimation returned (or raised) outcome
Body(i, star, st, outcome) ==
    IF outcome.kind = "raise"
    THEN /\ series' = (i :> [star EXCEPT !.spectral_type = st]) @@ series
         /\ error' = outcome.err
         /\ pc' = "raised"
         /\ UNCHANGED <<todo, raw>>
    ELSE /\ series' =
              (i :> Assigned([star EXCEPT !.spectral_type = st],
                             outcome.vals)) @@ series
         /\ raw' = (i :> outcome.vals[1]) @@ raw
         /\ todo' = todo \ {i}
         /\ UNCHANGED <<error, pc>>

\* lines 37-72: one iteration of the carbon-oxygen loop
CarbonOxygenStar ==
    /\ pc = "carbon_oxygen"
    /\ todo # {}
    /\ LET i == MinOf(todo)
           star == RowSeries(carbon_oxygen_white_dwarfs[i])
       IN  \E r \in Draws :
             LET st == get_spectral_type(r, db_to_da_fraction)
             IN  /\ draws' = [draws EXCEPT ![i] = Append(@, r)]
                 /\ Body(i, star, st, co_estimation(star, st))
    /\ tables' = grids_after_estimation(tables)
    /\ UNCHANGED <<stars, carbon_oxygen_white_dwarfs,
                   oxygen_neon_white_dwarfs, result, est, reading,
                   filtering>>

\* the carbon-oxygen loop is exhausted: line 74 starts the next loop
NextLoop ==
    /\ pc = "carbon_oxygen"
    /\ todo = {}
    /\ pc' = "oxygen_neon"
    /\ todo' = DOMAIN oxygen_neon_white_dwarfs
    /\ UNCHANGED <<stars, tables, carbon_oxygen_white_dwarfs,
                   oxygen_neon_white_dwarfs, series, draws, raw, result,
                   error, est, reading,
                   filtering>>

\* lines 74-91: one iteration of the oxygen-neon loop; line 106 stores the
\* transformed cooling time on the Series
OxygenNeonStar ==
    /\ pc = "oxygen_neon"
    /\ todo # {}
    /\ LET i == MinOf(todo)
           star == RowSeries(oxygen_neon_white_dwarfs[i])
           ct == one_cooling_time(star)
           logged == IF IsErr(ct) THEN star
                     ELSE [star EXCEPT !.cooling_time = ct]
       IN  Body(i, logged, "ONe",
                one_interpolation(star, tables.one_color_table))
    /\ tables' = grids_after_estimation(tables)
    /\ UNCHANGED <<stars, carbon_oxygen_white_dwarfs,
                   oxygen_neon_white_dwarfs, draws, result, est, reading,
                   filtering>>

\* DataFrame + DataFrame: rows and columns are aligned on the union of the
\* labels, and a cell that one operand lacks is NaN
DataFrameAdd(left, right) ==
    [i \in DOMAIN left \cup DOMAIN right |->
        [c \in InputColumns |->
            IF i \in DOMAIN left /\ i \in DOMAIN right
            THEN Add(left[i][c], right[i][c])
            ELSE NaN]]

\* line 93
Return ==
    /\ pc = "oxygen_neon"
    /\ todo = {}
    /\ result' = DataFrameAdd(carbon_oxygen_white_dwarfs,
                              oxygen_neon_white_dwarfs)
    /\ pc' = "returned"
    /\ UNCHANGED <<stars, tables, carbon_oxygen_white_dwarfs,
                   oxygen_neon_white_dwarfs, todo, series, draws, raw, error,
                   est, reading,
                   filtering>>

Next ==
    \/ Split
    \/ CarbonOxygenStar
    \/ NextLoop
    \/ OxygenNeonStar
    \/ Return

Spec == Init /\ [][Next]_vars

\* ------------------------------------------------ the estimator on its own
\* EstSpec applies the estimator functions to one grid and one star: est
\* holds the arguments, the function last called (op), its index arguments
\* and the value it returned or the exception it raised.
EstSequences ==
    {CoolingSequence(rc, pre, 0) :
        rc \in {PaddedCounts, FullCounts}, pre \in {0, 1}}
    \cup {SkewedSequence(rc, pre) :
            rc \in {PaddedCounts, FullCounts}, pre \in {0, 1}}

EstStars(pre) ==
    {StarOf(m, 20, Int2V(t)) :
        m \in {50, 52, 55, 60, 65, 70, 80},
        t \in {1 - pre, 10 - pre, 55, 100 - pre, 1000 - pre, 2000}}

EstLuminosities == {Int2V(-1), Int2V(3), Int2V(5), Int2V(9)}

EstInit ==
    /\ \E seq \in EstSequences, desc \in BOOLEAN,
          interest \in {"luminosity", "effective_temperature"},
          by_logarithm \in BOOLEAN, one_model \in BOOLEAN :
         \E star \in EstStars(seq.pre_wd_lifetime[1][2]) :
           /\ by_logarithm /\ ~one_model => interest = "effective_temperature"
           /\ est = [op |-> "none", seq |-> seq,
                     table |-> ColorTable(seq.rows_counts, desc, 0),
                     star |-> star, interest |-> interest,
                     by_logarithm |-> by_logarithm, one_model |-> one_model,
                     index |-> 0, side |-> "none", caller |-> "none",
                     luminosity |-> None, value |-> None,
                     case |-> NoCase, mags |-> NoneResult, rows |-> {},
                     band |-> "none", row |-> 0]
    /\ stars = <<>>
    /\ tables = <<>>
    /\ pc = "estimator"
    /\ carbon_oxygen_white_dwarfs = NoFrame
    /\ oxygen_neon_white_dwarfs = NoFrame
    /\ todo = {}
    /\ series = <<>>
    /\ draws = <<>>
    /\ raw = <<>>
    /\ result = NoFrame
    /\ error = None
    /\ NotReading
    /\ NotFiltering

\* the call op on track index gave value, having read the rows `rows`
CalledReading(op, index, value, rows) ==
    /\ est' = [est EXCEPT !.op = op, !.index = index, !.value = value,
                          !.side = "none", !.caller = "none",
                          !.rows = rows]
    /\ UNCHANGED <<stars, tables, pc, carbon_oxygen_white_dwarfs,
                   oxygen_neon_white_dwarfs, todo, series, draws, raw,
                   result, error, reading,
                   filtering>>

Called(op, index, value) == CalledReading(op, index, value, {})

EstTracks == 0..(Len(est.seq.mass) - 1)

EstInterpolate ==
    /\ est.op = "none"
    /\ Called("interpolate", 0,
              interpolate(est.star, est.seq, est.interest, est.by_logarithm,
                          est.one_model))

EstGetXm ==
    /\ est.op = "none"
    /\ \E m \in EstTracks :
         CalledReading("get_xm", m,
                       get_xm(est.star, est.seq.cooling_time,
                              est.seq.pre_wd_lifetime, est.seq[est.interest],
                              est.seq.rows_counts, m, est.by_logarithm,
                              est.one_model),
                       xm_rows_read(est.star, est.seq.cooling_time,
                                    est.seq.rows_counts, m))

EstInterpolateByMass ==
    /\ est.op = "none"
    /\ Called("interpolate_by_mass", 0,
              interpolate_by_mass(est.star, est.seq.mass,
                                  est.seq.cooling_time,
                                  est.seq.pre_wd_lifetime,
                                  est.seq[est.interest], est.seq.rows_counts,
                                  est.by_logarithm, est.one_model))

\* lines 323-414 of interpolate_by_mass for the bracket k, k + 1 that holds
\* the star's mass (the bracket the loop of lines 317-321 looks for)
EstBlendByMass ==
    \E k \in MassBrackets(est.star, est.seq.mass, Len(est.seq.mass)) :
      /\ est.op = "none"
      /\ Called("blend_by_mass", k,
                blend_by_mass(est.star, k, k + 1, est.seq.mass,
                              est.seq.cooling_time, est.seq.pre_wd_lifetime,
                              est.seq[est.interest], est.seq.rows_counts,
                              est.by_logarithm, est.one_model))

\* lines 323-357 or 359-393 of interpolate_by_mass for track m
EstTrackCase ==
    \E m \in EstTracks :
      /\ est.op = "none"
      /\ est' = [est EXCEPT
                   !.op = "track_case", !.index = m,
                   !.case = track_case(est.star, est.seq.cooling_time,
                                       est.seq.pre_wd_lifetime,
                                       est.seq[est.interest],
                                       est.seq.rows_counts, m,
                                       est.by_logarithm, est.one_model),
                   !.rows = case_rows_read(est.star, est.seq.cooling_time,
                                           est.seq.rows_counts, m)]
      /\ UNCHANGED <<stars, tables, pc, carbon_oxygen_white_dwarfs,
                     oxygen_neon_white_dwarfs, todo, series, draws, raw,
                     result, error, reading,
                   filtering>>

\* the star moved onto the first ("below") or last ("beyond") valid sample of
\* track m
AtBoundary(star, seq, m, side) ==
    [star EXCEPT !.cooling_time =
        IF side = "below" THEN At2(seq.cooling_time, m, 0)
        ELSE At2(seq.cooling_time, m, seq.rows_counts[m + 1] - 1)]

\* the row a caller of get_extrapolated_xm passes on a side of the track
BoundaryRow(caller, side, rows_count) ==
    IF caller = "get_xm"
    THEN (IF side = "below" THEN xm_row_below
          ELSE xm_row_beyond(rows_count))
    ELSE (IF side = "below" THEN case_row_below
          ELSE case_row_beyond(rows_count))

\* get_extrapolated_xm as get_xm or interpolate_by_mass calls it on a side of
\* track m, for a star whose cooling time is the boundary sample of that side
EstBoundary ==
    \E m \in EstTracks, side \in {"below", "beyond"},
       caller \in {"get_xm", "interpolate_by_mass"} :
      /\ est.op = "none"
      /\ est' = [est EXCEPT
                   !.op = "get_extrapolated_xm", !.index = m, !.side = side,
                   !.caller = caller,
                   !.value = get_extrapolated_xm(
                       AtBoundary(est.star, est.seq, m, side),
                       est.seq.cooling_time, est.seq.pre_wd_lifetime,
                       est.seq[est.interest], m,
                       BoundaryRow(caller, side, est.seq.rows_counts[m + 1]),
                       est.by_logarithm, est.one_model),
                   !.rows = extrapolation_rows_read(
                       BoundaryRow(caller, side,
                                   est.seq.rows_counts[m + 1]))]
      /\ UNCHANGED <<stars, tables, pc, carbon_oxygen_white_dwarfs,
                     oxygen_neon_white_dwarfs, todo, series, draws, raw,
                     result, error, reading,
                   filtering>>

EstMagnitudes ==
    \E luminosity \in EstLuminosities :
      /\ est.op = "none"
      /\ est' = [est EXCEPT
                   !.op = "interpolate_magnitudes",
                   !.luminosity = luminosity,
                   !.mags = interpolate_magnitudes(est.star, est.table,
                                                   luminosity)]
      /\ UNCHANGED <<stars, tables, pc, carbon_oxygen_white_dwarfs,
                     oxygen_neon_white_dwarfs, todo, series, draws, raw,
                     result, error, reading,
                   filtering>>

\* one magnitude of the colour table blended across the mass bracket k,
\* k + 1 on rows row, row + 1 of both tracks: get_interpolated_magnitude as
\* get_interpolated_magnitudes_by_luminosity calls it (lines 589-640), or
\* get_abs_magnitude as get_extrapolated_magnitudes_by_luminosity calls it
\* (lines 643-663)
magnitude_of(caller, star, luminosity, table, band, row, k) ==
    IF caller = "get_interpolated_magnitude"
    THEN get_interpolated_magnitude(star.mass, luminosity, table.luminosity,
                                    table[band], table.mass, row, row, k)
    ELSE get_abs_magnitude(star.mass, luminosity, table[band],
                           table.luminosity, table.mass, row, row, k)

EstMagnitude ==
    \E luminosity \in EstLuminosities, b \in 1..5, row \in 0..1,
       k \in 0..(Len(est.table.mass) - 2),
       caller \in {"get_interpolated_magnitude", "get_abs_magnitude"} :
      /\ est.op = "none"
      /\ est' = [est EXCEPT
                   !.op = "magnitude", !.caller = caller, !.index = k,
                   !.luminosity = luminosity, !.band = Bands[b],
                   !.row = row,
                   !.value = magnitude_of(caller, est.star, luminosity,
                                          est.table, Bands[b], row, k)]
      /\ UNCHANGED <<stars, tables, pc, carbon_oxygen_white_dwarfs,
                     oxygen_neon_white_dwarfs, todo, series, draws, raw,
                     result, error, reading, filtering>>

EstNext ==
    \/ EstMagnitude
    \/ EstInterpolate
    \/ EstGetXm
    \/ EstInterpolateByMass
    \/ EstBlendByMass
    \/ EstTrackCase
    \/ EstBoundary
    \/ EstMagnitudes

EstSpec == EstInit /\ [][EstNext]_vars

\* ------------------------------------------------------ grid construction
\* da_cooling.py: one metallicity's cooling sequence is allocated by
\* metallicities_cooling_sequences and filled by read_files, row by row.

\* row k of a track file: the columns read_files uses.  Both layouts give
\* the cooling time 10 ** (k + 1) Gyr (less the pre-WD lifetime in layout 2).
FileRow(k) ==
    [luminosity |-> Int2V(2 * k), log_effective_temperature |-> Int2V(5 - k),
     cooling_time_myr |-> Int2V(Pow10Int(k + 4)), log_age |-> Int2V(k + 4),
     surface_gravity |-> Int2V(8)]

FileOf(ks) == [i \in 1..Len(ks) |-> FileRow(ks[i])]

\* track files: empty, ordered, not ordered, and longer than max_rows
TrackFiles ==
    {FileOf(<<>>), FileOf(<<0, 1>>), FileOf(<<0, 2, 1>>),
     FileOf([i \in 1..(Width + 1) |-> i - 1])}

\* what np.empty may leave in an entry of rows_counts
Uninitialized == {0, Width + 3}

\* lines 99-118: the arrays of one metallicity before read_files
metallicities_cooling_sequences(files_count, rows_counts) ==
    [mass |-> <<Hundredths(52), Hundredths(60), Hundredths(70)>>,
     pre_wd_lifetime |-> <<Int2V(1), Int2V(1), Int2V(1)>>,
     cooling_time |-> [m \in 1..files_count |-> Pad(<<>>)],
     effective_temperature |-> [m \in 1..files_count |-> Pad(<<>>)],
     surface_gravity |-> [m \in 1..files_count |-> Pad(<<>>)],
     luminosity |-> [m \in 1..files_count |-> Pad(<<>>)],
     rows_counts |-> rows_counts]

GridInit ==
    /\ files \in [1..3 -> TrackFiles]
    /\ \E rows_counts \in [1..3 -> Uninitialized] :
         cooling_sequence = metallicities_cooling_sequences(3, rows_counts)
    /\ fill_type \in {1, 2}
    /\ file_path_index = 0
    /\ row_index = 0
    /\ pc = "read_files"
    /\ stars = <<>>
    /\ tables = <<>>
    /\ carbon_oxygen_white_dwarfs = NoFrame
    /\ oxygen_neon_white_dwarfs = NoFrame
    /\ todo = {}
    /\ series = <<>>
    /\ draws = <<>>
    /\ raw = <<>>
    /\ result = NoFrame
    /\ error = None
    /\ est = NoCall
    /\ NotFiltering

\* lines 145-159: the cooling time of a row in the two layouts
row_cooling_time(row, type, pre_wd_lifetime) ==
    IF type = 1 THEN Div(row.cooling_time_myr, Int2V(1000))
    ELSE Sub(Div(Pow10(row.log_age), Int2V(1000)), pre_wd_lifetime)

\* lines 142-159: the arrays after row row_index of file file_path_index
stored_row(sequence, f, r, row, type) ==
    [sequence EXCEPT
        !.rows_counts[f + 1] = r + 1,
        !.luminosity[f + 1][r + 1] = row.luminosity,
        !.effective_temperature[f + 1][r + 1] =
            Pow10(row.log_effective_temperature),
        !.cooling_time[f + 1][r + 1] =
            row_cooling_time(row, type, sequence.pre_wd_lifetime[f + 1]),
        !.surface_gravity[f + 1][r + 1] = row.surface_gravity]

\* line 134: max_rows is the rows_count the arrays were allocated with
max_rows == Width

\* lines 138-159: the csv reader yields a row and it is stored
ReadRow ==
    /\ pc = "read_files"
    /\ file_path_index < Len(files)
    /\ row_index < Len(files[file_path_index + 1])
    /\ row_index # max_rows
    /\ cooling_sequence' =
         stored_row(cooling_sequence, file_path_index, row_index,
                    files[file_path_index + 1][row_index + 1], fill_type)
    /\ row_index' = row_index + 1
    /\ UNCHANGED <<stars, tables, pc, carbon_oxygen_white_dwarfs,
                   oxygen_neon_white_dwarfs, todo, series, draws, raw,
                   result, error, est, files, file_path_index, fill_type,
                   filtering>>

\* lines 134-141: the file is exhausted, or row_index == max_rows breaks
NextFile ==
    /\ pc = "read_files"
    /\ file_path_index < Len(files)
    /\ \/ row_index = Len(files[file_path_index + 1])
       \/ row_index = max_rows
    /\ file_path_index' = file_path_index + 1
    /\ row_index' = 0
    /\ UNCHANGED <<stars, tables, pc, carbon_oxygen_white_dwarfs,
                   oxygen_neon_white_dwarfs, todo, series, draws, raw,
                   result, error, est, files, cooling_sequence, fill_type,
                   filtering>>

\* read_files returns: the grid is handed to the estimation as it is
FilesRead ==
    /\ pc = "read_files"
    /\ file_path_index = Len(files)
    /\ pc' = "built"
    /\ UNCHANGED <<stars, tables, carbon_oxygen_white_dwarfs,
                   oxygen_neon_white_dwarfs, todo, series, draws, raw,
                   result, error, est, reading,
                   filtering>>

\* the first star is estimated on a track of the grid just built
FirstStar ==
    /\ pc = "built"
    /\ \E m \in GridTracks :
         est' = [op |-> "get_xm", index |-> m,
                 value |-> get_xm(StarOf(50, 20, Int2V(55)),
                                  cooling_sequence.cooling_time,
                                  cooling_sequence.pre_wd_lifetime,
                                  cooling_sequence.luminosity,
                                  cooling_sequence.rows_counts, m, FALSE,
                                  FALSE)]
    /\ pc' = "assigning"
    /\ UNCHANGED <<stars, tables, carbon_oxygen_white_dwarfs,
                   oxygen_neon_white_dwarfs, todo, series, draws, raw,
                   result, error, reading,
                   filtering>>

GridNext ==
    \/ ReadRow
    \/ NextFile
    \/ FilesRead
    \/ FirstStar

GridSpec == GridInit /\ [][GridNext]_vars

\* ============================================================ filter_stars
\* plots/service.py, filter_stars: the frame read from the database is cut
\* down according to the filtration method: "raw" returns it as it is,
\* "full" applies the cuts of lines 227-242, "restricted" those of lines
\* 244-287 as well.
MaxFrame == 2

Methods == {"raw", "full", "restricted"}

min_parallax == Num(25, 1000)
min_declination == Int2V(0)
max_velocity == 500
min_proper_motion == Num(4, 100)
max_v_apparent_magnitude == 19

\* a row of the frame: distance in kpc, declination, velocity components,
\* proper motion and absolute magnitudes (B as V and I as R, so that the
\* colours of the reduced-proper-motion cut are those of V - R alone).
\* Distances and proper motions are powers of ten: their log10 is exact.
PlotStar(id, distance, declination, u_velocity, proper_motion, v_abs_magnitude, r_abs_magnitude) == [id |-> id, distance |-> distance, declination |-> Int2V(declination), u_velocity |-> Int2V(u_velocity), v_velocity |-> Int2V(400), w_velocity |-> Int2V(0), proper_motion |-> proper_motion, b_abs_magnitude |-> Int2V(v_abs_magnitude), v_abs_magnitude |-> Int2V(v_abs_magnitude), r_abs_magnitude |-> r_abs_magnitude, i_abs_magnitude |-> r_abs_magnitude]

PlotStars ==
    {PlotStar(1, Num(1, 100), 1, 0, Num(1, 10), 15, Int2V(15)),
     PlotStar(2, Num(1, 10), 1, 0, Num(1, 10), 15, Int2V(15)),
     PlotStar(3, Num(1, 100), -1, 0, Num(1, 10), 15, Int2V(15)),
     PlotStar(4, Num(1, 100), 1, 600, Num(1, 10), 15, Int2V(15)),
     PlotStar(5, Num(1, 100), 0, 0, Num(1, 10), 15, Int2V(15)),
     PlotStar(6, Num(1, 100), 1, 300, Num(1, 10), 15, Int2V(15)),
     PlotStar(7, Num(1, 100), 1, 0, Num(1, 100), 15, Int2V(15)),
     PlotStar(8, Num(1, 100), 1, 0, Num(1, 10), 14, Int2V(14)),
     PlotStar(9, Num(1, 100), 1, 0, Num(1, 10), 15, Num(29, 2)),
     PlotStar(10, Num(1, 100), 1, 0, Num(1, 10), 20, Int2V(20))}

\* lines 227-229: parallaxes = 1 / (distance * 1e3), kept when > min_parallax
parallax_mask(star) ==
    Gt(Div(Int2V(1), Mul(star.distance, Int2V(1000))), min_parallax)

\* line 233
declination_mask(star) == Gt(star.declination, min_declination)

\* lines 238-241
velocity_mask(star) ==
    Lt(Add(Add(Mul(star.u_velocity, star.u_velocity),
               Mul(star.v_velocity, star.v_velocity)),
           Mul(star.w_velocity, star.w_velocity)),
       Int2V(max_velocity * max_velocity))

\* line 246
proper_motion_mask(star) == Gt(star.proper_motion, min_proper_motion)

\* lines 167-172
apparent_magnitude(abs_magnitude, distance_kpc) ==
    Add(Sub(abs_magnitude, Int2V(5)),
        Mul(Int2V(5), Add(Log10(distance_kpc), Int2V(3))))

\* lines 253-255
g_ugriz_abs_magnitude(star) ==
    Add(Sub(star.v_abs_magnitude, Num(124, 1000)),
        Mul(Num(63, 100), Sub(star.b_abs_magnitude, star.v_abs_magnitude)))

\* lines 256-261
z_ugriz_abs_magnitude(star) ==
    Add(Sub(Sub(g_ugriz_abs_magnitude(star),
                Mul(Num(1646, 1000),
                    Sub(star.v_abs_magnitude, star.r_abs_magnitude))),
            Mul(Num(1584, 1000),
                Sub(star.r_abs_magnitude, star.i_abs_magnitude))),
        Num(525, 1000))

\* lines 262-264
g_apparent_magnitude(star) ==
    apparent_magnitude(g_ugriz_abs_magnitude(star), star.distance)

\* lines 265-267
z_apparent_magnitude(star) ==
    apparent_magnitude(z_ugriz_abs_magnitude(star), star.distance)

\* lines 269-270
hrms(star) ==
    Add(g_apparent_magnitude(star),
        Add(Mul(Int2V(5), Log10(star.proper_motion)), Int2V(5)))

\* lines 271-273
colour_or_hrms_mask(star) ==
    \/ Gt(Sub(g_apparent_magnitude(star), z_apparent_magnitude(star)),
          Num(-33, 100))
    \/ Gt(hrms(star), Int2V(14))

\* lines 274-275.  The mask is computed on the frame as it was before the
\* cut of lines 271-273 and indexes the frame after it: pandas reindexes
\* the boolean key to the rows left, each of which keeps its own value.
hrms_line_mask(star) ==
    Gt(hrms(star),
       Add(Mul(Num(3559, 1000),
               Sub(g_apparent_magnitude(star), z_apparent_magnitude(star))),
           Num(1517, 100)))

\* lines 280-285
apparent_magnitude_mask(star) ==
    Le(apparent_magnitude(star.v_abs_magnitude, star.distance),
       Int2V(max_v_apparent_magnitude))

FilterInit ==
    /\ \E n \in 0..MaxFrame : stars \in [1..n -> PlotStars]
    /\ method \in Methods
    /\ pc = "filter_stars"
    /\ stars_copy = <<>>
    /\ stars_count = 0
    /\ eliminations_counter = <<>>
    /\ filtered = <<>>
    /\ tables = <<>>
    /\ carbon_oxygen_white_dwarfs = NoFrame
    /\ oxygen_neon_white_dwarfs = NoFrame
    /\ todo = {}
    /\ series = <<>>
    /\ draws = <<>>
    /\ raw = <<>>
    /\ result = NoFrame
    /\ error = None
    /\ est = NoCall
    /\ NotReading

FilterUnchanged ==
    UNCHANGED <<stars, tables, carbon_oxygen_white_dwarfs,
                oxygen_neon_white_dwarfs, todo, series, draws, raw, result,
                error, est, reading, method>>

\* lines 214-223: method 'raw' counts the stars and returns them
RawMethod ==
    /\ pc = "filter_stars"
    /\ method = "raw"
    /\ stars_count' = Len(stars)
    /\ eliminations_counter' = ("raw" :> Len(stars))
    /\ filtered' = stars
    /\ pc' = "filtered"
    /\ UNCHANGED stars_copy
    /\ FilterUnchanged

\* a cut that counts its eliminations from the size of the input frame
cut_counted_from_input(kept, name, next) ==
    /\ stars_count' = Len(stars_copy)
    /\ stars_copy' = kept
    /\ eliminations_counter' =
           (name :> (Len(stars) - Len(kept))) @@ eliminations_counter
    /\ pc' = next
    /\ UNCHANGED filtered
    /\ FilterUnchanged

\* the step of a cut: count what is there, keep the masked rows, count the
\* eliminated ones under the name of the cut
Cut(kept, name, next) ==
    /\ stars_count' = Len(stars_copy)
    /\ stars_copy' = kept
    /\ eliminations_counter' =
           (name :> (Len(stars_copy) - Len(kept))) @@ eliminations_counter
    /\ pc' = next
    /\ UNCHANGED filtered
    /\ FilterUnchanged

\* lines 214-217, 225: any other method goes on with a copy of the frame
CopyStars ==
    /\ pc = "filter_stars"
    /\ method # "raw"
    /\ stars_count' = Len(stars)
    /\ eliminations_counter' = ("raw" :> Len(stars))
    /\ stars_copy' = stars
    /\ pc' = "by_parallax"
    /\ UNCHANGED filtered
    /\ FilterUnchanged

\* lines 227-230
ByParallax ==
    /\ pc = "by_parallax"
    /\ Cut(SelectSeq(stars_copy, parallax_mask), "by_parallax",
           "by_declination")

\* lines 232-235
ByDeclination ==
    /\ pc = "by_declination"
    /\ Cut(SelectSeq(stars_copy, declination_mask), "by_declination",
           "by_velocity")

\* lines 237-242: outside the `if method == 'restricted'` block
ByVelocity ==
    /\ pc = "by_velocity"
    /\ Cut(SelectSeq(stars_copy, velocity_mask), "by_velocity", "return")

\* lines 244-249
ByProperMotion ==
    /\ pc = "return"
    /\ method = "restricted"
    /\ Cut(SelectSeq(stars_copy, proper_motion_mask), "by_proper_motion",
           "by_reduced_proper_motion")

\* lines 251-277: two cuts counted under one name
ByReducedProperMotion ==
    /\ pc = "by_reduced_proper_motion"
    /\ Cut(SelectSeq(SelectSeq(stars_copy, colour_or_hrms_mask),
                     hrms_line_mask),
           "by_reduced_proper_motion", "by_apparent_magnitude")

\* lines 279-287
ByApparentMagnitude ==
    /\ pc = "by_apparent_magnitude"
    /\ Cut(SelectSeq(stars_copy, apparent_magnitude_mask),
           "by_apparent_magnitude", "committed")

\* lines 289-294 after the restricted cuts
ReturnRestricted ==
    /\ pc = "committed"
    /\ filtered' = stars_copy
    /\ pc' = "filtered"
    /\ UNCHANGED <<stars_copy, stars_count, eliminations_counter>>
    /\ FilterUnchanged

\* lines 244, 289-294: method 'full' skips the restricted cuts and returns
ReturnCopy ==
    /\ pc = "return"
    /\ method # "restricted"
    /\ filtered' = stars_copy
    /\ pc' = "filtered"
    /\ UNCHANGED <<stars_copy, stars_count, eliminations_counter>>
    /\ FilterUnchanged

FilterNext ==
    \/ RawMethod
    \/ CopyStars
    \/ ByParallax
    \/ ByDeclination
    \/ ByVelocity
    \/ ByProperMotion
    \/ ByReducedProperMotion
    \/ ByApparentMagnitude
    \/ ReturnRestricted
    \/ ReturnCopy

FilterSpec == FilterInit /\ [][FilterNext]_vars

\* ==================================================================== claims
\* a star whose loop body ran to its end
Completed(i) == i \in DOMAIN series /\ series[i].luminosity # Absent

\* C1: after assign_magnitudes returns, every input star appears once in the
\* result and carries the derived fields the loop body computed for it.
C1_ResultCarriesDerivedFields ==
    pc = "returned" =>
        \A i \in Labels :
            /\ i \in DOMAIN result
            /\ \A k \in 1..7 :
                 /\ DerivedColumns[k] \in DOMAIN result[i]
                 /\ result[i][DerivedColumns[k]] = series[i][DerivedColumns[k]]

\* C2: every processed star gets one spectral type, never changed afterwards:
\* ONe iff mass >= max_carbon_oxygen_core_wd_mass, DA or DB iff mass is below
\* it, and the two frames partition the input stars.
C2_Classified ==
    /\ \A i \in DOMAIN series :
         /\ series[i].spectral_type \in {"DA", "DB", "ONe"}
         /\ series[i].spectral_type = "ONe"
              <=> Ge(stars[i].mass, max_carbon_oxygen_core_wd_mass)
         /\ series[i].spectral_type \in {"DA", "DB"}
              <=> Lt(stars[i].mass, max_carbon_oxygen_core_wd_mass)
    /\ pc \notin {"split", "estimator"} =>
         /\ DOMAIN carbon_oxygen_white_dwarfs
              \cap DOMAIN oxygen_neon_white_dwarfs = {}
         /\ DOMAIN carbon_oxygen_white_dwarfs
              \cup DOMAIN oxygen_neon_white_dwarfs = Labels

\* C2 (whole statement): the classification above holds in every state and
\* a spectral type, once assigned, is never changed or removed.
C2_SpectralTypeAssignedOnce ==
    /\ []C2_Classified
    /\ [][\A i \in DOMAIN series :
            /\ i \in DOMAIN series'
            /\ series'[i].spectral_type = series[i].spectral_type]_vars

C2_Witness ==
    /\ pc = "returned"
    /\ \E i \in DOMAIN series :
         /\ stars[i].mass = max_carbon_oxygen_core_wd_mass
         /\ series[i].spectral_type = "ONe"
    /\ \E i \in DOMAIN series : series[i].spectral_type \in {"DA", "DB"}

\* the Series of star i holds what the estimation `expected` gives
Holds(i, expected) ==
    IF expected.kind = "raise"
    THEN ~Completed(i) /\ error = expected.err
    ELSE /\ series[i].luminosity = Neg(expected.vals[1])
         /\ \A k \in 2..7 : series[i][DerivedColumns[k]] = expected.vals[k]

\* C3: a carbon-oxygen star with draw r is DB, estimated with the DB cooling
\* sequences, the DB colour table and [0.001, 0.01, 0.06], when
\* r < db_to_da_fraction; otherwise it is DA, estimated with the DA cooling
\* sequences, the DA colour table and [0.001, 0.01, 0.03, 0.06].
C3_TablesFollowTheDraw ==
    \A i \in DOMAIN series :
        series[i].spectral_type # "ONe" =>
            /\ Len(draws[i]) = 1
            /\ IF Lt(draws[i][1], db_to_da_fraction)
               THEN /\ series[i].spectral_type = "DB"
                    /\ Holds(i, da_db_interpolation(stars[i],
                                    tables.db_cooling_sequences,
                                    tables.db_color_table,
                                    <<Num(1, 1000), Num(1, 100),
                                      Num(6, 100)>>))
               ELSE /\ series[i].spectral_type = "DA"
                    /\ Holds(i, da_db_interpolation(stars[i],
                                    tables.da_cooling_sequences,
                                    tables.da_color_table,
                                    <<Num(1, 1000), Num(1, 100), Num(3, 100),
                                      Num(6, 100)>>))

C3_Witness ==
    /\ \E i \in DOMAIN series :
         /\ Completed(i)
         /\ draws[i] = <<db_to_da_fraction>>
         /\ series[i].spectral_type = "DA"
    /\ \E i \in DOMAIN series :
         /\ Completed(i)
         /\ series[i].spectral_type = "DB"

\* the numeric values a track case hands to the final formula
CaseAssigned(c) ==
    /\ c.err = None
    /\ c.case \in {Int2V(0), Int2V(1)}
    /\ IsNum(c.x)
    /\ c.case = Int2V(0) => IsNum(c.x_next) /\ IsNum(c.y) /\ IsNum(c.y_next)

\* C4: for every track, padded or not, and every cooling time, the per-track
\* estimation of get_xm and of interpolate_by_mass gives a number: nothing
\* is raised, nothing is None, the case flag and its values are assigned.
C4_TrackEstimateIsNumeric ==
    /\ est.op = "get_xm" => IsNum(est.value)
    /\ est.op = "track_case" => CaseAssigned(est.case)

\* C5: every absolute magnitude assigned to a star is >= 0.
C5_MagnitudesNonNegative ==
    \A i \in DOMAIN series :
        Completed(i) => \A b \in 1..5 : Ge(series[i][Bands[b]], Int2V(0))

\* the luminosity and the magnitudes of a carbon-oxygen star i come from
\* the blend lt and from the colour-table lookup mags
FromLookup(i, lt, mags) ==
    /\ lt.kind = "tuple"
    /\ raw[i] = lt.vals[1]
    /\ mags.kind = "tuple"
    /\ \A b \in 1..5 : series[i][Bands[b]] = mags.vals[b]

\* C6: the stored luminosity is the negation of the raw luminosity the
\* estimation returned, in both branches, and the colour-table lookup of a
\* carbon-oxygen star is made with the raw metallicity-blended luminosity.
C6_LuminositySign ==
    \A i \in DOMAIN raw :
        /\ series[i].luminosity = Neg(raw[i])
        /\ series[i].spectral_type # "ONe" =>
             FromLookup(i,
                 blend_by_metallicity(stars[i],
                     co_cooling_sequences(series[i].spectral_type),
                     co_metallicities(series[i].spectral_type)),
                 interpolate_magnitudes(stars[i],
                     co_color_table(series[i].spectral_type), raw[i]))

C6_Witness ==
    /\ \E i \in DOMAIN raw :
         /\ series[i].spectral_type = "ONe"
         /\ Gt(raw[i], Int2V(0))
    /\ \E i \in DOMAIN raw :
         /\ series[i].spectral_type \in {"DA", "DB"}
         /\ Gt(raw[i], Int2V(0))

\* the straight line through (m0, xm1) and (m1, xm2) at star_mass
LineThrough(m0, xm1, m1, xm2, star_mass) ==
    Add(xm1, Mul(Sub(xm2, xm1), Div(Sub(star_mass, m0), Sub(m1, m0))))

\* get_xm of the star of the estimator call on track m
TrackEstimate(m) ==
    get_xm(est.star, est.seq.cooling_time, est.seq.pre_wd_lifetime,
           est.seq[est.interest], est.seq.rows_counts, m, est.by_logarithm,
           est.one_model)

OnLine(value, m0, xm1, m1, xm2, star_mass) ==
    IsNum(xm1) /\ IsNum(xm2) =>
        value = LineThrough(m0, xm1, m1, xm2, star_mass)

\* C7: for a star lighter than the lightest track, interpolate uses tracks 0
\* and 1, both inside the grid, and returns the value at the star's mass of
\* the line through (mass[0], xm1) and (mass[1], xm2).
C7_LowMassUsesFirstTwoTracks ==
    est.op = "interpolate" /\ Lt(est.star.mass, est.seq.mass[1]) =>
        /\ interpolate_min_mass_index(est.star, est.seq.mass) = Int2V(0)
        /\ Len(est.seq.mass) >= 2
        /\ est.value # Raise("IndexError")
             \/ Raise("IndexError") \in {TrackEstimate(0), TrackEstimate(1)}
        /\ OnLine(est.value, est.seq.mass[1], TrackEstimate(0),
                  est.seq.mass[2], TrackEstimate(1), est.star.mass)

C7_Witness ==
    /\ est.op = "interpolate"
    /\ Lt(est.star.mass, est.seq.mass[1])
    /\ IsNum(est.value)
    /\ est.value # TrackEstimate(0)

\* index i brackets the last two tracks of an n-track grid
LastBracket(i, n) == IsNum(i) /\ i[3] = 1 /\ i[2] = n - 2

\* C8: for a star at or above the heaviest track, the lower bracket index
\* chosen by interpolate and by interpolate_magnitudes is n - 2, so that
\* 0 <= i and i + 1 <= n - 1.
C8_HighMassUsesLastTwoTracks ==
    /\ est.op = "interpolate"
         /\ Ge(est.star.mass, est.seq.mass[Len(est.seq.mass)]) =>
           LastBracket(interpolate_min_mass_index(est.star, est.seq.mass),
                       Len(est.seq.mass))
    /\ est.op = "interpolate_magnitudes"
         /\ Ge(est.star.mass, est.table.mass[Len(est.table.mass)]) =>
           LastBracket(magnitudes_min_mass_index(est.star, est.table),
                       Len(est.table.mass))

\* C9: when the star's cooling time is the cooling time of a valid sample of
\* track m, get_xm returns the dependent value of that sample.
C9_ExactAtSample ==
    est.op = "get_xm" =>
        \A r \in 0..(est.seq.rows_counts[est.index + 1] - 1) :
            At2(est.seq.cooling_time, est.index, r) = est.star.cooling_time
                => est.value = At2(est.seq[est.interest], est.index, r)

\* the dependent value of the first or last valid sample of track m
BoundarySample(m, side) ==
    IF side = "below" THEN At2(est.seq[est.interest], m, 0)
    ELSE At2(est.seq[est.interest], m, est.seq.rows_counts[m + 1] - 1)

\* C10: in one_model mode the extrapolation line below the first valid
\* sample gives that sample's value at that sample, and the line beyond the
\* last valid sample gives the last sample's value at the last sample, for
\* the rows get_xm passes and for the rows interpolate_by_mass passes.
C10_NoJumpAtBoundary ==
    est.op = "get_extrapolated_xm" /\ est.one_model =>
        est.value = BoundarySample(est.index, est.side)

\* the estimate of one track as the final formula of interpolate_by_mass
\* sees it: the extrapolated value, or the line through the bracketing pair
PerTrack(c, t) ==
    IF c.case = Int2V(1) THEN c.x
    ELSE Add(c.x, Div(Mul(Sub(c.x_next, c.x), Sub(t, c.y)),
                      Sub(c.y_next, c.y)))

Between(v, a, b) ==
    \/ Le(a, v) /\ Le(v, b)
    \/ Le(b, v) /\ Le(v, a)

\* the case of track m for the star of the estimator call
CaseOf(m) ==
    track_case(est.star, est.seq.cooling_time, est.seq.pre_wd_lifetime,
               est.seq[est.interest], est.seq.rows_counts, m,
               est.by_logarithm, est.one_model)

BlendBetween(v, lo, hi, t) ==
    CaseAssigned(lo) /\ CaseAssigned(hi) =>
        Between(v, PerTrack(lo, t), PerTrack(hi, t))

\* C11: for a star whose mass lies in the bracket mass[k], mass[k + 1], the
\* blend of interpolate_by_mass lies between the estimate of track k and the
\* estimate of track k + 1, whichever of the four case combinations applies.
C11_BlendBetweenTrackEstimates ==
    est.op = "blend_by_mass" =>
        BlendBetween(est.value, CaseOf(est.index), CaseOf(est.index + 1),
                     est.star.cooling_time)

\* the star's metallicity is in no bracket of the list
OutOfBrackets(star, metallicities) ==
    \/ Lt(star.metallicity, metallicities[1])
    \/ Ge(star.metallicity, metallicities[Len(metallicities)])

\* C12: a carbon-oxygen star whose metallicity is in no bracket of its
\* metallicity list makes da_db_interpolation fail with an error of its own,
\* raised before the blend: never the error of reading the unset min/max
\* variables, and never a finished estimation.
C12_OutOfBracketMetallicityRejected ==
    \A i \in DOMAIN series :
        /\ series[i].spectral_type # "ONe"
        /\ OutOfBrackets(stars[i], co_metallicities(series[i].spectral_type))
        => /\ ~Completed(i)
           /\ pc = "raised"
           /\ error # None
           /\ error # Raise("UnboundLocalError")

\* assign_magnitudes has stopped: it returned or an exception left it
Stopped == pc \in {"returned", "raised"}

\* C13: a star whose estimation fails does not end the batch: when
\* assign_magnitudes stops, every star of the batch has been through its
\* loop body and has its spectral type, and every star but the failed ones
\* has its derived fields.
C13_BatchSurvivesStarError ==
    Stopped =>
        \A i \in Labels :
            /\ i \in DOMAIN series
            /\ series[i].spectral_type \in {"DA", "DB", "ONe"}

\* track m of a grid has its valid rows inside the array, at least one of
\* them, and cooling times that increase along them
WellFormedTrack(sequence, m) ==
    /\ sequence.rows_counts[m] \in 1..Width
    /\ \A r \in 1..(sequence.rows_counts[m] - 1) :
         Lt(sequence.cooling_time[m][r], sequence.cooling_time[m][r + 1])

\* C14: a grid with a track without valid rows or with unordered cooling
\* times does not survive its construction: whenever read_files has
\* returned and the estimation may start, every track is well formed.
C14_MalformedGridRejected ==
    pc \in {"built", "assigning"} =>
        \A m \in 1..Len(files) : WellFormedTrack(cooling_sequence, m)

\* C15: no step of assign_magnitudes changes a grid: the cooling sequences
\* and colour tables are the same after every step as before it, whatever
\* stars are processed.
C15_GridsReadOnly == [][tables' = tables]_vars

C15_Witness ==
    /\ pc = "returned"
    /\ tables.one_color_table.rows_counts[1] > 0
    /\ \E i \in DOMAIN series :
         Completed(i) /\ series[i].spectral_type \in {"DA", "DB"}
    /\ \E i \in DOMAIN series :
         Completed(i) /\ series[i].spectral_type = "ONe"

\* what the estimation of star i gives on its own: from its row, the grids
\* and its draw, whatever else is in the batch
OwnOutcome(i) ==
    IF i \in DOMAIN carbon_oxygen_white_dwarfs
    THEN co_estimation(RowSeries(stars[i]),
                       get_spectral_type(draws[i][1], db_to_da_fraction))
    ELSE one_interpolation(RowSeries(stars[i]), tables.one_color_table)

\* one draw for a carbon-oxygen star, none for an oxygen-neon star
DrawnOnce(i) ==
    Len(draws[i]) = (IF i \in DOMAIN carbon_oxygen_white_dwarfs THEN 1 ELSE 0)

\* star i went through its loop body with its own draw and its own outcome
Independent(i) ==
    /\ i \in DOMAIN series
    /\ DrawnOnce(i)
    /\ Holds(i, OwnOutcome(i))

\* C16: when assign_magnitudes stops, every star of the batch has had one
\* draw if it is carbon-oxygen and none if it is oxygen-neon, and carries
\* the outcome that its own row, the grids and its own draw determine,
\* whichever other stars are in the batch.
C16_OutputsDependOnlyOnOwnInputs ==
    Stopped => \A i \in Labels : Independent(i)

\* the rows of a frame
Rows(frame) == {frame[k] : k \in DOMAIN frame}

\* C17: when filter_stars has returned, method 'raw' has returned the stars
\* unchanged, and method 'full' has eliminated a star only if it fails the
\* parallax criterion or the declination criterion.
C17_FullCutsByParallaxAndDeclinationOnly ==
    pc = "filtered" =>
        /\ method = "raw" => filtered = stars
        /\ method = "full" =>
               \A star \in Rows(stars) \ Rows(filtered) :
                   ~parallax_mask(star) \/ ~declination_mask(star)

\* the valid rows of track m of the grid of the call
ValidRows(m) == 0..(est.seq.rows_counts[m + 1] - 1)

\* the calls whose row reads are recorded
ReadsRows == est.op \in {"get_xm", "track_case", "get_extrapolated_xm"}

\* C18: every row index that get_xm, a block of interpolate_by_mass or
\* get_extrapolated_xm reads on track m is one of the valid rows
\* 0 .. rows_counts[m] - 1.
C18_ReadsWithinValidRows == ReadsRows => est.rows \subseteq ValidRows(est.index)

\* the decision the specification gives for a cooling time t on a track
\* whose first and last valid samples are first and last
SpecifiedDecision(t, first, last) ==
    IF Lt(t, first) \/ Ge(t, last) THEN "extrapolated" ELSE "interpolated"

\* the specified decision for the star and track m of the call
Specified(m) ==
    SpecifiedDecision(est.star.cooling_time,
                      At2(est.seq.cooling_time, m, 0),
                      At2(est.seq.cooling_time, m,
                          est.seq.rows_counts[m + 1] - 1))

\* get_xm and the block of interpolate_by_mass both take decision d for the
\* star and track m of the call
BothDecide(m, d) ==
    /\ xm_branch(est.star, est.seq.cooling_time, est.seq.rows_counts, m) = d
    /\ case_branch(est.star, est.seq.cooling_time, est.seq.rows_counts, m) = d

\* C19: for a call of get_xm or of a block of interpolate_by_mass on a
\* track with n valid rows, the estimate is extrapolated exactly when the
\* star's cooling time is below sample 0 or at or above sample n - 1 and is
\* interpolated otherwise, and the two functions take the same decision.
C19_ExtrapolatedExactlyOutsideValidSamples ==
    est.op \in {"get_xm", "track_case"} /\ IsNum(est.star.cooling_time)
        => BothDecide(est.index, Specified(est.index))

\* the outermost pair of valid rows on a side of a track with n valid rows
OutermostPair(side, n) == IF side = "below" THEN {0, 1} ELSE {n - 2, n - 1}

\* C20: when get_xm or interpolate_by_mass extrapolates on a side of a track
\* with n valid rows, get_extrapolated_xm fits its line through the
\* outermost pair of valid rows of that side: rows 0 and 1 below the first
\* sample, rows n - 2 and n - 1 at or above the last one.
C20_ExtrapolatesThroughOutermostPair ==
    est.op = "get_extrapolated_xm"
        => est.rows = OutermostPair(est.side, est.seq.rows_counts[est.index + 1])

\* linear interpolation of a track at cooling time t between the bracketing
\* pair its case holds
Interpolation(c, t) ==
    Add(c.x, Mul(Div(Sub(t, c.y), Sub(c.y_next, c.y)), Sub(c.x_next, c.x)))

\* a + (b - a) * den
Blend(a, b, den) == Add(a, Mul(Sub(b, a), den))

\* the result the pair of cases selects
ByCasePair(lo, hi, den, t) ==
    IF lo.case = Int2V(0) /\ hi.case = Int2V(1)
    THEN Blend(Interpolation(lo, t), hi.x, den)
    ELSE IF lo.case = Int2V(1) /\ hi.case = Int2V(0)
    THEN Blend(lo.x, Interpolation(hi, t), den)
    ELSE IF lo.case = Int2V(1) /\ hi.case = Int2V(1)
    THEN Blend(lo.x, hi.x, den)
    ELSE Interpolation([x |-> Blend(lo.x, hi.x, den),
                        x_next |-> Blend(lo.x_next, hi.x_next, den),
                        y |-> Blend(lo.y, hi.y, den),
                        y_next |-> Blend(lo.y_next, hi.y_next, den)], t)

\* the case of track m is the one its own cooling-time range gives
OwnCase(c, m) ==
    (c.case = Int2V(1)) <=>
        case_branch(est.star, est.seq.cooling_time, est.seq.rows_counts, m)
            = "extrapolated"

\* den of the bracket k, k + 1 for the star of the call
DenOf(k) ==
    Div(Sub(est.star.mass, At(est.seq.mass, k)),
        Sub(At(est.seq.mass, k + 1), At(est.seq.mass, k)))

SelectedByCases(v, lo, hi, k) ==
    CaseAssigned(lo) /\ CaseAssigned(hi) =>
        /\ OwnCase(lo, k)
        /\ OwnCase(hi, k + 1)
        /\ v = ByCasePair(lo, hi, DenOf(k), est.star.cooling_time)

MixedCases(lo, hi) ==
    /\ CaseAssigned(lo) /\ CaseAssigned(hi)
    /\ lo.case # hi.case

TrackValue(m) ==
    track_magnitude(est.luminosity, est.table.luminosity, est.table[est.band],
                    m, est.row)

\* the line through (mass_1, c_1) and (mass_2, c_2) at star_mass
MassLine(mass_1, c_1, mass_2, c_2, star_mass) ==
    Add(c_1, Mul(Sub(c_2, c_1),
                 Div(Sub(star_mass, mass_1), Sub(mass_2, mass_1))))

\* v is the blend of c_1 and c_2 with the masses of tracks k and k + 1 (the
\* extrapolated path returns max(0, blend))
BlendedWithBracketMasses(v, c_1, c_2, k, clamped) ==
    IsNum(c_1) /\ IsNum(c_2) =>
        LET line == MassLine(At(est.table.mass, k), c_1,
                             At(est.table.mass, k + 1), c_2, est.star.mass)
        IN  v = (IF clamped THEN Max0(line) ELSE line)

\* C22: a colour-table magnitude of the bracket k, k + 1 is the line through
\* (table_mass[k], c_1) and (table_mass[k + 1], c_2) at the star's mass, for
\* every k, in get_interpolated_magnitude and in get_abs_magnitude.
C22_MagnitudeBlendedWithBracketMasses ==
    est.op = "magnitude" =>
        BlendedWithBracketMasses(est.value, TrackValue(est.index),
                                 TrackValue(est.index + 1), est.index,
                                 est.caller = "get_abs_magnitude")

\* the colour table of the call has its luminosity descending along a track
Descending(table) ==
    Gt(At2(table.luminosity, 0, 0), At2(table.luminosity, 0, 1))

\* interpolate_magnitudes of the call went into get_magnitudes with bracket
\* k and took neither extrapolation branch
Inside(k) ==
    /\ est.op = "interpolate_magnitudes"
    /\ magnitudes_min_mass_index(est.star, est.table) = Int2V(k)
    /\ magnitudes_branch(est.luminosity, est.table.luminosity,
                         est.table.rows_counts[k + 1],
                         est.table.rows_counts[k + 2], k) = "inside"

\* track m of the table has a valid row i with luminosity[i + 1] <= L <=
\* luminosity[i]
BracketFound(m) ==
    LuminosityRows(est.table, m, est.table.rows_counts[m + 1],
                   est.luminosity) # {}

\* C23: on a descending colour table, when get_magnitudes takes neither
\* extrapolation branch, get_interpolated_magnitudes_by_luminosity finds a
\* bracketing row in both tracks of the bracket and returns five
\* magnitudes.
C23_InsideFindsBracketAndReturns ==
    Descending(est.table) /\ Inside(0) =>
        /\ BracketFound(0)
        /\ BracketFound(1)
        /\ est.mags.kind = "tuple"
        /\ Len(est.mags.vals) = 5

\* the indices i with metallicities[i] <= Z < metallicities[i + 1]
Brackets(Z, metallicities) ==
    {i \in 1..(Len(metallicities) - 1) :
        Le(metallicities[i], Z) /\ Lt(Z, metallicities[i + 1])}

\* the per-mille key of a metallicity
PerMille(metallicity) == IntOf(Mul(metallicity, Int2V(1000)))

\* for a metallicity Z within the list, index i is the only bracket of Z and
\* the keys of its two ends are keys of the family
SelectsKeys(star, metallicities, i, cooling_sequences) ==
    ~OutOfBrackets(star, metallicities) =>
        /\ Brackets(star.metallicity, metallicities) = {i}
        /\ PerMille(metallicities[i]) \in DOMAIN cooling_sequences
        /\ PerMille(metallicities[i + 1]) \in DOMAIN cooling_sequences
        /\ sequence_estimate(star, cooling_sequences,
                             PerMille(metallicities[i]), "luminosity", FALSE)
               # Raise("KeyError")

\* star i has a metallicity within the list of its model
InBrackets(i) ==
    ~OutOfBrackets(stars[i], co_metallicities(series[i].spectral_type))

\* the selection made for star i, which received spectral type st
SelectsKeysFor(i, st) ==
    SelectsKeys(stars[i], co_metallicities(st),
                metallicity_index(stars[i], co_metallicities(st)),
                co_cooling_sequences(st))

\* C24: for a carbon-oxygen star whose metallicity lies within the
\* metallicity list of its model, da_db_interpolation selects the one index
\* i with m_i <= Z < m_(i+1), and the per-mille keys of m_i and m_(i+1) are
\* keys of the cooling-sequence family (1, 10, 30, 60 for DA), so that the
\* lookup raises no KeyError.
C24_MetallicityBracketSelectsKeys ==
    \A i \in DOMAIN series :
        series[i].spectral_type \in {"DA", "DB"} =>
            /\ SelectsKeysFor(i, series[i].spectral_type)
            /\ DOMAIN tables.da_cooling_sequences = {1, 10, 30, 60}
            /\ InBrackets(i) => error # Raise("KeyError")

C24_Witness ==
    /\ \E i \in DOMAIN series :
         /\ series[i].spectral_type = "DA"
         /\ metallicity_index(stars[i], DA_METALLICITIES) = 3
    /\ \E i \in DOMAIN series :
         /\ series[i].spectral_type = "DB"
         /\ metallicity_index(stars[i], DB_METALLICITIES) = 2

\* v is lo + (hi - lo) * (Z - Zmin) / (Zmax - Zmin): it lies between lo and
\* hi and is lo at Z = Zmin
BlendOf(v, lo, hi, Z, Zmin, Zmax) ==
    /\ IsNum(lo) /\ IsNum(hi)
    /\ v = Blend(lo, hi, Div(Sub(Z, Zmin), Sub(Zmax, Zmin)))
    /\ Between(v, lo, hi)
    /\ Z = Zmin => v = lo

\* the estimate of a quantity on the grid of metallicity key
GridEstimate(i, seqs, key, interest) ==
    sequence_estimate(stars[i], seqs, key, interest,
                      interest = "effective_temperature")

\* luminosity and effective temperature of star i are the blends of the
\* estimates on the grids of metallicities[k] and metallicities[k + 1]
BlendedByMetallicity(i, seqs, metallicities, k) ==
    /\ k # 0
    /\ BlendOf(raw[i],
               GridEstimate(i, seqs, PerMille(metallicities[k]), "luminosity"),
               GridEstimate(i, seqs, PerMille(metallicities[k + 1]),
                            "luminosity"),
               stars[i].metallicity, metallicities[k], metallicities[k + 1])
    /\ BlendOf(series[i].effective_temperature,
               GridEstimate(i, seqs, PerMille(metallicities[k]),
                            "effective_temperature"),
               GridEstimate(i, seqs, PerMille(metallicities[k + 1]),
                            "effective_temperature"),
               stars[i].metallicity, metallicities[k], metallicities[k + 1])

\* a carbon-oxygen star whose estimation returned
EstimatedCO(i) ==
    i \in DOMAIN raw /\ series[i].spectral_type \in {"DA", "DB"}

\* C25: the luminosity and the effective temperature of a carbon-oxygen star
\* are min + (max - min) * (Z - Zmin) / (Zmax - Zmin) with min and max the
\* estimates on the grids of the bracketing metallicities; at Z = Zmin the
\* result is the estimate of the Zmin grid, and it lies between the two.
C25_BlendedByMetallicity ==
    \A i \in DOMAIN raw :
        EstimatedCO(i) =>
            BlendedByMetallicity(i,
                co_cooling_sequences(series[i].spectral_type),
                co_metallicities(series[i].spectral_type),
                metallicity_index(stars[i],
                    co_metallicities(series[i].spectral_type)))

C25_Witness ==
    /\ \E i \in DOMAIN raw :
         /\ EstimatedCO(i)
         /\ stars[i].metallicity = Num(10, 1000)
    /\ \E i \in DOMAIN raw :
         /\ EstimatedCO(i)
         /\ stars[i].metallicity = Num(20, 1000)
         /\ raw[i] # GridEstimate(i, co_cooling_sequences(series[i].spectral_type), 10, "luminosity")

\* the quantity q of the one_color_table by the mass-interpolated estimator
\* with one_model = True and by_logarithm = False, for star s
OneQuantity(s, q) == interpolate(s, tables.one_color_table, q, FALSE, TRUE)

\* the star as the lookup sees it, with metallicity Z
LookupStar(i, Z) ==
    [stars[i] EXCEPT !.cooling_time = one_cooling_time(stars[i]),
                     !.metallicity = Z]

\* the outputs of star i are composed of the seven quantities
Composed(i, luminosity, v, bv, vi, vr, uv, log_effective_temperature) ==
    /\ raw[i] = luminosity
    /\ series[i].effective_temperature = Pow10(log_effective_temperature)
    /\ series[i].v_ubvri_absolute = v
    /\ series[i].u_ubvri_absolute = Add(uv, v)
    /\ series[i].b_ubvri_absolute = Add(bv, v)
    /\ series[i].r_ubvri_absolute = Sub(v, vr)
    /\ series[i].i_ubvri_absolute = Sub(v, vi)

ComposedFromTable(i, s) ==
    Composed(i, OneQuantity(s, "luminosity"),
             OneQuantity(s, "v_ubvri_absolute"), OneQuantity(s, "bv_ubvri"),
             OneQuantity(s, "vi_ubvri"), OneQuantity(s, "vr_ubvri"),
             OneQuantity(s, "uv_ubvri"),
             OneQuantity(s, "log_effective_temperature"))

\* an oxygen-neon star whose estimation returned
EstimatedONe(i) == i \in DOMAIN raw /\ series[i].spectral_type = "ONe"

\* C26: every output of an oxygen-neon star comes from the one_color_table
\* by the mass-interpolated estimator with one_model = True and by_logarithm
\* = False at the transformed cooling time, composed as U = (U-V) + V,
\* B = (B-V) + V, R = V - (V-R), I = V - (V-I), and is the same whatever the
\* star's metallicity.
C26_OxygenNeonFromSingleTable ==
    \A i \in DOMAIN raw :
        EstimatedONe(i) =>
            /\ ComposedFromTable(i, LookupStar(i, stars[i].metallicity))
            /\ ComposedFromTable(i, LookupStar(i, Num(1, 1000)))

C26_Witness ==
    \E i \in DOMAIN raw :
        /\ EstimatedONe(i)
        /\ IsNum(series[i].u_ubvri_absolute)
        /\ series[i].u_ubvri_absolute # series[i].v_ubvri_absolute
        /\ series[i].r_ubvri_absolute # series[i].v_ubvri_absolute

\* the straight line through (y_lo, x_lo) and (y_hi, x_hi) at t
PlainLine(t, y_lo, x_lo, y_hi, x_hi) ==
    Add(x_hi, Mul(Div(Sub(x_hi, x_lo), Sub(y_hi, y_lo)), Sub(t, y_hi)))

\* the fit the flags select on the samples (y_lo, x_lo), (y_hi, x_hi): the
\* plain line with one_model, else the line against log10(t + pre), in
\* log10 of the values too with by_logarithm
SelectedFit(t, pre, y_lo, x_lo, y_hi, x_hi, by_logarithm, one_model) ==
    IF one_model THEN PlainLine(t, y_lo, x_lo, y_hi, x_hi)
    ELSE IF by_logarithm
    THEN Pow10(PlainLine(Log10(Add(t, pre)), Log10(Add(y_lo, pre)),
                         Log10(x_lo), Log10(Add(y_hi, pre)), Log10(x_hi)))
    ELSE PlainLine(Log10(Add(t, pre)), Log10(Add(y_lo, pre)), x_lo,
                   Log10(Add(y_hi, pre)), x_hi)

\* the fit on rows r and r + 1 of track m of the grid of the call
FitOnRows(t, m, r) ==
    SelectedFit(t, At(est.seq.pre_wd_lifetime, m),
                At2(est.seq.cooling_time, m, r),
                At2(est.seq[est.interest], m, r),
                At2(est.seq.cooling_time, m, r + 1),
                At2(est.seq[est.interest], m, r + 1),
                est.by_logarithm, est.one_model)

\* get_extrapolated_xm of the call with other flags and pre-WD lifetimes
WithOther(t, m, r, by_logarithm, pre) ==
    get_extrapolated_xm([est.star EXCEPT !.cooling_time = t],
                        est.seq.cooling_time, <<pre, pre, pre>>,
                        est.seq[est.interest], m, r, by_logarithm,
                        est.one_model)

\* v is the selected fit on rows r, r + 1 at t, and with one_model it is the
\* same for the other by_logarithm and another pre_wd_lifetime
ExtrapolatedOnRows(v, t, m, r) ==
    IsNum(v) =>
        /\ v = FitOnRows(t, m, r)
        /\ est.one_model => v = WithOther(t, m, r, ~est.by_logarithm,
                                          Int2V(7))

\* the cooling time get_extrapolated_xm was called with
CalledAt ==
    IF est.op = "get_xm" THEN est.star.cooling_time
    ELSE AtBoundary(est.star, est.seq, est.index, est.side).cooling_time

\* the first row get_extrapolated_xm was called with
CalledOnRow ==
    IF est.op = "get_xm" THEN xm_row_below
    ELSE BoundaryRow(est.caller, est.side, est.seq.rows_counts[est.index + 1])

\* get_extrapolated_xm gave est.value: called by itself on a boundary, or
\* by get_xm below the first sample of the track
Extrapolated ==
    \/ est.op = "get_extrapolated_xm"
    \/ /\ est.op = "get_xm"
       /\ Lt(est.star.cooling_time, At2(est.seq.cooling_time, est.index, 0))

\* C27: with one_model, get_extrapolated_xm returns the straight line
\* through rows min_row_index and min_row_index + 1 at the star's cooling
\* time, whatever by_logarithm and pre_wd_lifetime are; without it the line
\* is fitted against log10(cooling_time + pre_wd_lifetime).
C27_SingleModelIsPlainLinear ==
    Extrapolated =>
        ExtrapolatedOnRows(est.value, CalledAt, est.index, CalledOnRow)

C27_Witness ==
    /\ est.op = "get_xm"
    /\ Extrapolated
    /\ est.one_model
    /\ IsNum(est.value)
    /\ est.value # At2(est.seq[est.interest], est.index, 0)

\* ------------------------------------------------------------------- C28
\* the Series of row i holds the input columns of the row as they were
\* passed in
InputFieldsKept(i) ==
    \A c \in InputColumns : series[i][c] = stars[i][c]

\* C28: assign_magnitudes leaves the input fields of every star as they
\* were: after its loop body ran, the star of every row, carbon-oxygen or
\* oxygen-neon, has the mass, metallicity and cooling_time the row was
\* passed in with (the log10(cooling_time) + 9 of the oxygen-neon branch is
\* not stored on the star).
C28_InputFieldsUnchanged ==
    \A i \in DOMAIN series : InputFieldsKept(i)

\* ------------------------------------------------------------------- C29
\* the estimate of one track on its own at cooling time t: the linear
\* interpolation between its bracketing samples, or its extrapolated value
OwnEstimate(c, t) ==
    IF c.case = Int2V(0) THEN Interpolation(c, t) ELSE c.x

\* the star's mass is the mass of track k
OnTrack(k) == est.star.mass = At(est.seq.mass, k)

LowerEstimate(v, lo, hi, t) ==
    CaseAssigned(lo) /\ CaseAssigned(hi) => v = OwnEstimate(lo, t)

Differs(lo, hi, t) ==
    /\ CaseAssigned(lo) /\ CaseAssigned(hi)
    /\ OwnEstimate(hi, t) # OwnEstimate(lo, t)

Criteria ==
    <<"by_parallax", "by_declination", "by_velocity", "by_proper_motion",
      "by_reduced_proper_motion", "by_apparent_magnitude">>

\* the number of criteria a method applies
Applied(m) == IF m = "raw" THEN 0 ELSE IF m = "restricted" THEN 6 ELSE 3

\* the star passes criterion n
Passes(n, star) ==
    CASE n = 1 -> parallax_mask(star)
      [] n = 2 -> declination_mask(star)
      [] n = 3 -> velocity_mask(star)
      [] n = 4 -> proper_motion_mask(star)
      [] n = 5 -> colour_or_hrms_mask(star) /\ hrms_line_mask(star)
      [] n = 6 -> apparent_magnitude_mask(star)

\* the rows of the frame that pass the first n criteria
Survivors(frame, n) ==
    SelectSeq(frame, LAMBDA star : \A j \in 1..n : Passes(j, star))

\* the sum of the by_* counters recorded
RECURSIVE SumOfEliminations(_, _)
SumOfEliminations(counter, n) ==
    IF n = 0 THEN 0
    ELSE counter[Criteria[n]] + SumOfEliminations(counter, n - 1)

\* the counters of a finished call with `applied` criteria on frame input
Conserves(input, counter, applied, returned) ==
    /\ DOMAIN counter = {"raw"} \cup {Criteria[n] : n \in 1..applied}
    /\ counter["raw"] = Len(input)
    /\ counter["raw"] = Len(returned) + SumOfEliminations(counter, applied)
    /\ \A n \in 1..applied :
         counter[Criteria[n]] =
             Len(Survivors(input, n - 1)) - Len(Survivors(input, n))
    /\ returned = Survivors(input, applied)

\* C30: filter_stars conserves the star count and leaves its input alone:
\* for every method, when it has returned, the 'raw' count is the number of
\* stars returned plus the sum of the by_* counters recorded, each counter
\* is the number of stars that passed every earlier criterion (parallax,
\* declination, velocity, then for 'restricted' proper motion, reduced
\* proper motion, apparent magnitude) and failed its own, and no step of the
\* call changes the rows of the input frame.
C30_CountConservedInputUnchanged ==
    [][/\ stars' = stars
       /\ pc' = "filtered" =>
            Conserves(stars, eliminations_counter', Applied(method),
                      filtered')]_vars

\* a restricted call that returned a star and eliminated one by a
\* restricted criterion
C30_Witness ==
    /\ pc = "filtered"
    /\ method = "restricted"
    /\ Len(filtered) = 1
    /\ Len(stars) = 2
    /\ \E n \in 4..6 : eliminations_counter[Criteria[n]] = 1

====
